---- MODULE Spec2Model ----
(***************************************************************************)
(* A model of the reliable publisher of TurboCookedRabbit                  *)
(* (v2/pkg/tcr/publisher.go): Publish, PublishWithConfirmation and their   *)
(* error, context and transient variants, the auto-publish drain loop,     *)
(* QueueLetter, publishReceipt and Shutdown, with the pool and the broker. *)
(*                                                                         *)
(* Letters are modelled by their index 1..NumLetters; a letter is          *)
(* published at most once, either by a direct call of                      *)
(* PublishWithConfirmation or through QueueLetter and the drain loop.      *)
(* A goroutine is a process of the model; every action is one atomic       *)
(* segment of a goroutine between two points where it can block or be      *)
(* interleaved with another goroutine on shared state.                     *)
(***************************************************************************)
EXTENDS Naturals, Sequences, FiniteSets, Bags

\* ------------------------------------------------------------------ bounds
NumLetters == 2
NumStarters == 2
MaxCacheChannelCount == 1
LettersCap == 1
ReceiptsCap == 1
MaxBatchLen == 2

Letters == 1..NumLetters
Starters == 1..NumStarters
Chans == 1..MaxCacheChannelCount

NoLetter == 0      \* a nil *Letter
NoChan == 0        \* no ChannelHost in hand
NoLoop == 0        \* not spawned by a drain loop
NoError == "nil"
TimeoutError == "timeout"
AcquireError == "acquire"
SubmitError == "submit"
ContextError == "context"
NotReturned == "none"   \* the call has not returned an error value

\* No transient channel, and a transient channel just opened.
NoTransient == [open |-> FALSE, inflight |-> 0, confirms |-> <<>>]
NewTransient == [open |-> TRUE, inflight |-> 0, confirms |-> <<>>]

LetterIDOf(l) == 100 + l

VARIABLES
    pc,               \* pc[l]: where the publish of letter l stands
    held,             \* held[l]: the ChannelHost the attempt holds (chanHost)
    spawner,          \* spawner[l]: drain loop that spawned the attempt, NoLoop for a direct call
    late,             \* letters whose QueueLetter call began after Shutdown(true) returned
    nacked,           \* letters whose call has consumed at least one nack
    letters,          \* pub.letters, the buffered channel of queued letters
    chanState,        \* pool slot of a channel: "avail", "held" or "replacing"
    inflight,         \* per channel: publishes the broker has not confirmed yet
    Confirmations,    \* per channel: chanHost.Confirmations, delivered and unconsumed
    poolShutdown,     \* ConnectionPool.Shutdown() has run
    autoStarted,      \* pub.autoStarted
    shutdownSignal,   \* pub.shutdownSignal: "open" or "closed"
    wg,               \* pub.wg counter
    starter,          \* starter[s]: position of a StartAutoPublishing call
    loop,             \* loop[s]: position of the drain loop started by call s
    loopLetter,       \* loop[s]'s dequeued letter waiting for a semaphore slot
    sem,              \* sem[s]: tokens in loop s's parallelPublishSemaphore
    shutPc,           \* position of the Shutdown call
    shutdownPools,    \* argument of the Shutdown call
    receiptTasks,     \* bag of receipts whose goroutine has not sent yet
    publishReceipts,  \* pub.publishReceipts, the buffered channel
    emitted,          \* bag of all receipts ever sent on pub.publishReceipts
    result,           \* result[l]: the error value the call returned, "none" before
    skipReceipt,      \* skipReceipt[l]: argument of Publish / PublishWithError
    ctxDone,          \* ctxDone[l]: the call's context has been cancelled
    transient,        \* transient[l]: the transient channel of the call
    viaContext,       \* letters published by PublishWithConfirmationContext
    acquireFailed,    \* letters whose call failed to acquire a channel
    unacquiredReturn, \* letters whose call gave ReturnChannel a chanHost it never acquired
    batch,            \* the slice given to QueueLetters
    batchNext,        \* index in the slice of the letter QueueLetters sends next
    batchPc,          \* position of the QueueLetters call: "idle", "loop", "returned"
    batchOk,          \* the value QueueLetters returned
    timeoutAfter      \* timeoutAfter[l]: "none", "running" or "fired"

vars == <<pc, held, spawner, late, nacked, letters, chanState, inflight, Confirmations,
          poolShutdown, autoStarted, shutdownSignal, wg, starter, loop,
          loopLetter, sem, shutPc, shutdownPools, receiptTasks,
          publishReceipts, emitted, result, skipReceipt, ctxDone, transient,
          viaContext, acquireFailed, unacquiredReturn, batch, batchNext, batchPc, batchOk, timeoutAfter>>

batchVars == <<batch, batchNext, batchPc, batchOk>>
callVars == <<result, skipReceipt, ctxDone, transient, viaContext>>
poolVars == <<chanState, inflight, Confirmations>>
autoVars == <<autoStarted, starter, loop, loopLetter, sem>>
shutVars == <<shutPc, shutdownPools, shutdownSignal, poolShutdown>>
rcptVars == <<receiptTasks, publishReceipts, emitted>>

Init ==
    /\ pc = [l \in Letters |-> "idle"]
    /\ held = [l \in Letters |-> NoChan]
    /\ spawner = [l \in Letters |-> NoLoop]
    /\ late = {}
    /\ nacked = {}
    /\ letters = <<>>
    /\ chanState = [c \in Chans |-> "avail"]
    /\ inflight = [c \in Chans |-> <<>>]
    /\ Confirmations = [c \in Chans |-> <<>>]
    /\ poolShutdown = FALSE
    /\ autoStarted = FALSE
    /\ shutdownSignal = "open"
    /\ wg = 0
    /\ starter = [s \in Starters |-> "idle"]
    /\ loop = [s \in Starters |-> "none"]
    /\ loopLetter = [s \in Starters |-> NoLetter]
    /\ sem = [s \in Starters |-> 0]
    /\ shutPc = "idle"
    /\ shutdownPools = FALSE
    /\ receiptTasks = EmptyBag
    /\ publishReceipts = <<>>
    /\ emitted = EmptyBag
    /\ result = [l \in Letters |-> NotReturned]
    /\ skipReceipt = [l \in Letters |-> FALSE]
    /\ ctxDone = [l \in Letters |-> FALSE]
    /\ transient = [l \in Letters |-> NoTransient]
    /\ viaContext = {}
    /\ acquireFailed = {}
    /\ unacquiredReturn = {}
    /\ batch = <<>>
    /\ batchNext = 1
    /\ batchPc = "idle"
    /\ batchOk = FALSE
    /\ timeoutAfter = [l \in Letters |-> "none"]

\* ------------------------------------------------------------ pure helpers

\* A receipt that carries the letter as FailedLetter whatever the outcome.
NewReceiptWithLetter(l, e) ==
    [LetterID |-> LetterIDOf(l),
     Error |-> e,
     Success |-> (e = NoError),
     FailedLetter |-> l]

\* The PublishReceipt built by publishReceipt's goroutine for letter l, error e.
NewReceipt(l, e) ==
    [LetterID |-> LetterIDOf(l),
     Error |-> e,
     Success |-> (e = NoError),
     FailedLetter |-> IF e = NoError THEN NoLetter ELSE l]

\* publishReceipt(l, e): wg.Add(1) and spawn the goroutine that will send.
publishReceipt(l, e) ==
    /\ wg' = wg + 1
    /\ receiptTasks' = receiptTasks (+) SetToBag({NewReceipt(l, e)})

\* A new publish on a channel makes every earlier one not the latest.
Age(q) == IF q = <<>> THEN <<>> ELSE [i \in 1..Len(q) |-> FALSE]
AgeConf(q) ==
    IF q = <<>> THEN <<>>
    ELSE [i \in 1..Len(q) |-> [Ack |-> q[i].Ack, Latest |-> FALSE]]

\* Capacity of deliverLetters' parallelPublishSemaphore.
SemaphoreCap == (MaxCacheChannelCount \div 2) + 1

isAutoStarted == autoStarted

AwaitShutdown == shutdownSignal = "closed"

\* A ReturnChannel that puts the channel back among the available ones
\* whatever the erred flag says.
ReturnChannelRelend(c, erred) ==
    /\ chanState' = [chanState EXCEPT ![c] = "avail"]
    /\ UNCHANGED <<inflight, Confirmations>>

\* ReturnChannel(c, erred): an erred channel is discarded and its slot waits
\* for the asynchronous replacement; a healthy one is available at once.
ReturnChannel(c, erred) ==
    IF erred
    THEN /\ chanState' = [chanState EXCEPT ![c] = "replacing"]
         /\ inflight' = [inflight EXCEPT ![c] = <<>>]
         /\ Confirmations' = [Confirmations EXCEPT ![c] = <<>>]
    ELSE /\ chanState' = [chanState EXCEPT ![c] = "avail"]
         /\ UNCHANGED <<inflight, Confirmations>>

\* ------------------------------------------------ PublishWithConfirmation

\* A caller invokes PublishWithConfirmation(letter, timeout) directly.
DirectCall(l) ==
    /\ pc[l] = "idle"
    /\ pc' = [pc EXCEPT ![l] = "get"]
    /\ UNCHANGED <<held, spawner, callVars, acquireFailed, unacquiredReturn, batchVars, timeoutAfter, late, nacked, letters, poolVars, autoVars, shutVars,
                   wg, rcptVars>>

\* GetChannelFromPool succeeds, then chanHost.FlushConfirms().
GetChannel(l) ==
    /\ pc[l] = "get"
    /\ ~poolShutdown
    /\ \E c \in Chans :
        /\ chanState[c] = "avail"
        /\ chanState' = [chanState EXCEPT ![c] = "held"]
        /\ Confirmations' = [Confirmations EXCEPT ![c] = <<>>]
        /\ held' = [held EXCEPT ![l] = c]
    /\ pc' = [pc EXCEPT ![l] = "publish"]
    /\ UNCHANGED <<spawner, callVars, acquireFailed, unacquiredReturn, batchVars, timeoutAfter, late, nacked, letters, inflight, autoVars, shutVars, wg,
                   rcptVars>>

\* GetChannelFromPool fails (pool shut down): failure receipt, return.
GetChannelFail(l) ==
    /\ pc[l] = "get"
    /\ poolShutdown
    /\ publishReceipt(l, AcquireError)
    /\ pc' = [pc EXCEPT ![l] = IF spawner[l] = NoLoop THEN "done" ELSE "release"]
    /\ acquireFailed' = acquireFailed \cup {l}
    /\ UNCHANGED unacquiredReturn
    /\ UNCHANGED batchVars
    /\ UNCHANGED <<held, spawner, callVars, timeoutAfter, late, nacked, letters, poolVars, autoVars, shutVars,
                   publishReceipts, emitted>>

\* A Publish label that makes the timer once, on the first attempt, and
\* keeps it across the retries.
PublishOkKeepTimer(l) ==
    /\ pc[l] = "publish"
    /\ LET c == held[l] IN
        /\ inflight' = [inflight EXCEPT ![c] = Append(Age(inflight[c]), TRUE)]
        /\ Confirmations' = [Confirmations EXCEPT ![c] = AgeConf(Confirmations[c])]
    /\ pc' = [pc EXCEPT ![l] = "wait"]
    /\ timeoutAfter' = [timeoutAfter EXCEPT ![l] =
                            IF timeoutAfter[l] = "none" THEN "running" ELSE timeoutAfter[l]]
    /\ UNCHANGED <<held, spawner, callVars, acquireFailed, unacquiredReturn, batchVars, late, nacked, letters,
                   chanState, autoVars, shutVars, wg, rcptVars>>

\* Label Publish: timeoutAfter := time.After(timeout) starts a new timer and
\* Channel.Publish succeeds.
PublishOk(l) ==
    /\ pc[l] = "publish"
    /\ LET c == held[l] IN
        /\ inflight' = [inflight EXCEPT ![c] = Append(Age(inflight[c]), TRUE)]
        /\ Confirmations' = [Confirmations EXCEPT ![c] = AgeConf(Confirmations[c])]
    /\ pc' = [pc EXCEPT ![l] = "wait"]
    /\ timeoutAfter' = [timeoutAfter EXCEPT ![l] = "running"]
    /\ UNCHANGED <<held, spawner, callVars, acquireFailed, unacquiredReturn, batchVars, late, nacked, letters, chanState, autoVars, shutVars,
                   wg, rcptVars>>

\* A submission error that is reported with a failure receipt before the
\* channel is returned and the sequence restarts.
PublishFailWithReceipt(l) ==
    /\ pc[l] = "publish"
    /\ ReturnChannel(held[l], TRUE)
    /\ publishReceipt(l, SubmitError)
    /\ held' = [held EXCEPT ![l] = NoChan]
    /\ pc' = [pc EXCEPT ![l] = "get"]
    /\ timeoutAfter' = [timeoutAfter EXCEPT ![l] = "none"]
    /\ UNCHANGED <<spawner, callVars, acquireFailed, unacquiredReturn, batchVars, late, nacked, letters, autoVars, shutVars,
                   publishReceipts, emitted>>

\* A submission error that returns the channel as erred and goes back to
\* the Publish label with the same chanHost.
PublishFailKeepChannel(l) ==
    /\ pc[l] = "publish"
    /\ ReturnChannel(held[l], TRUE)
    /\ timeoutAfter' = [timeoutAfter EXCEPT ![l] = "none"]
    /\ UNCHANGED <<pc, held, spawner, callVars, acquireFailed, unacquiredReturn, batchVars, late, nacked, letters,
                   autoVars, shutVars, wg, rcptVars>>

\* Channel.Publish returns an error: ReturnChannel(chanHost, true); continue.
PublishFail(l) ==
    /\ pc[l] = "publish"
    /\ ReturnChannel(held[l], TRUE)
    /\ held' = [held EXCEPT ![l] = NoChan]
    /\ pc' = [pc EXCEPT ![l] = "get"]
    /\ timeoutAfter' = [timeoutAfter EXCEPT ![l] = "none"]
    /\ UNCHANGED <<spawner, callVars, acquireFailed, unacquiredReturn, batchVars, late, nacked, letters, autoVars, shutVars, wg, rcptVars>>

\* The timer created by time.After(timeout) delivers on its channel while the
\* call polls it in the select (a timer that expires after a nack was
\* consumed is replaced at the Publish label before it is looked at again).
TimerFire(l) ==
    /\ pc[l] = "wait"
    /\ timeoutAfter[l] = "running"
    /\ timeoutAfter' = [timeoutAfter EXCEPT ![l] = "fired"]
    /\ UNCHANGED <<pc, held, spawner, callVars, acquireFailed, unacquiredReturn, batchVars, late, nacked, letters,
                   poolVars, autoVars, shutVars, wg, rcptVars>>

\* A timeout branch that ends in continue instead of return.
TimeoutRetry(l) ==
    /\ pc[l] = "wait"
    /\ timeoutAfter[l] = "fired"
    /\ publishReceipt(l, TimeoutError)
    /\ ReturnChannel(held[l], FALSE)
    /\ held' = [held EXCEPT ![l] = NoChan]
    /\ pc' = [pc EXCEPT ![l] = "get"]
    /\ timeoutAfter' = [timeoutAfter EXCEPT ![l] = "none"]
    /\ UNCHANGED <<spawner, callVars, acquireFailed, unacquiredReturn, batchVars, late, nacked, letters, autoVars, shutVars, publishReceipts,
                   emitted>>

\* case <-timeoutAfter: failure receipt, ReturnChannel(chanHost, false), return.
Timeout(l) ==
    /\ pc[l] = "wait"
    /\ timeoutAfter[l] = "fired"
    /\ publishReceipt(l, TimeoutError)
    /\ ReturnChannel(held[l], FALSE)
    /\ held' = [held EXCEPT ![l] = NoChan]
    /\ pc' = [pc EXCEPT ![l] = IF spawner[l] = NoLoop THEN "done" ELSE "release"]
    /\ timeoutAfter' = [timeoutAfter EXCEPT ![l] = "none"]
    /\ UNCHANGED <<spawner, callVars, acquireFailed, unacquiredReturn, batchVars, late, nacked, letters, autoVars, shutVars, publishReceipts,
                   emitted>>

\* An ack branch that sends the receipt but misses the return: the call keeps
\* the channel and stays in the confirmation wait.
ConsumeAckNoReturn(l) ==
    /\ pc[l] = "wait"
    /\ LET c == held[l] IN
        /\ Confirmations[c] # <<>>
        /\ Head(Confirmations[c]).Ack
        /\ Confirmations' = [Confirmations EXCEPT ![c] = Tail(Confirmations[c])]
        /\ UNCHANGED <<chanState, inflight>>
    /\ publishReceipt(l, NoError)
    /\ UNCHANGED <<pc, held, spawner, callVars, acquireFailed, unacquiredReturn, batchVars, timeoutAfter, late, nacked, letters, autoVars, shutVars,
                   publishReceipts, emitted>>

\* case confirmation := <-chanHost.Confirmations with confirmation.Ack:
\* success receipt, ReturnChannel(chanHost, false), return.
ConsumeAck(l) ==
    /\ pc[l] = "wait"
    /\ LET c == held[l] IN
        /\ Confirmations[c] # <<>>
        /\ Head(Confirmations[c]).Ack
        /\ chanState' = [chanState EXCEPT ![c] = "avail"]
        /\ Confirmations' = [Confirmations EXCEPT ![c] = Tail(Confirmations[c])]
        /\ UNCHANGED inflight
    /\ publishReceipt(l, NoError)
    /\ held' = [held EXCEPT ![l] = NoChan]
    /\ pc' = [pc EXCEPT ![l] = IF spawner[l] = NoLoop THEN "done" ELSE "release"]
    /\ timeoutAfter' = [timeoutAfter EXCEPT ![l] = "none"]
    /\ UNCHANGED <<spawner, callVars, acquireFailed, unacquiredReturn, batchVars, late, nacked, letters, autoVars, shutVars, publishReceipts,
                   emitted>>

\* A nack branch that gives up: the channel is returned and the call returns
\* without a receipt.
ConsumeNackGiveUp(l) ==
    /\ pc[l] = "wait"
    /\ LET c == held[l] IN
        /\ Confirmations[c] # <<>>
        /\ ~Head(Confirmations[c]).Ack
        /\ Confirmations' = [Confirmations EXCEPT ![c] = Tail(Confirmations[c])]
        /\ chanState' = [chanState EXCEPT ![c] = "avail"]
        /\ UNCHANGED inflight
    /\ nacked' = nacked \cup {l}
    /\ held' = [held EXCEPT ![l] = NoChan]
    /\ pc' = [pc EXCEPT ![l] = IF spawner[l] = NoLoop THEN "done" ELSE "release"]
    /\ timeoutAfter' = [timeoutAfter EXCEPT ![l] = "none"]
    /\ UNCHANGED <<spawner, callVars, acquireFailed, unacquiredReturn, batchVars, late, letters, autoVars, shutVars, wg, rcptVars>>

\* case confirmation := <-chanHost.Confirmations with !confirmation.Ack:
\* goto Publish on the same channel.
ConsumeNack(l) ==
    /\ pc[l] = "wait"
    /\ LET c == held[l] IN
        /\ Confirmations[c] # <<>>
        /\ ~Head(Confirmations[c]).Ack
        /\ Confirmations' = [Confirmations EXCEPT ![c] = Tail(Confirmations[c])]
    /\ nacked' = nacked \cup {l}
    /\ pc' = [pc EXCEPT ![l] = "publish"]
    /\ UNCHANGED <<held, spawner, callVars, acquireFailed, unacquiredReturn, batchVars, timeoutAfter, late, letters, chanState, inflight, autoVars,
                   shutVars, wg, rcptVars>>

\* ------------------------------------------- Publish and PublishWithError

\* A caller invokes Publish(letter, skipReceipt).
Publish(l, skip) ==
    /\ pc[l] = "idle"
    /\ pc' = [pc EXCEPT ![l] = "pget"]
    /\ skipReceipt' = [skipReceipt EXCEPT ![l] = skip]
    /\ UNCHANGED <<held, spawner, result, ctxDone, transient, viaContext, acquireFailed, unacquiredReturn, batchVars,
                   timeoutAfter, late, nacked, letters, poolVars, autoVars,
                   shutVars, wg, rcptVars>>

\* Publish: GetChannelFromPool succeeds (no FlushConfirms here).
PublishAcquire(l) ==
    /\ pc[l] = "pget"
    /\ ~poolShutdown
    /\ \E c \in Chans :
        /\ chanState[c] = "avail"
        /\ chanState' = [chanState EXCEPT ![c] = "held"]
        /\ held' = [held EXCEPT ![l] = c]
    /\ pc' = [pc EXCEPT ![l] = "psubmit"]
    /\ UNCHANGED <<spawner, callVars, acquireFailed, unacquiredReturn, batchVars, timeoutAfter, late, nacked,
                   letters, inflight, Confirmations, autoVars, shutVars, wg,
                   rcptVars>>

\* Publish: GetChannelFromPool fails; ReturnChannel(chanHost, true) is called
\* with the chanHost of the failed acquisition, which the call does not hold
\* (the pool's channels are left as they are), and the call returns.
PublishAcquireFail(l) ==
    /\ pc[l] = "pget"
    /\ poolShutdown
    /\ pc' = [pc EXCEPT ![l] = "pdone"]
    /\ acquireFailed' = acquireFailed \cup {l}
    /\ unacquiredReturn' = unacquiredReturn \cup {l}   \* ReturnChannel(chanHost, true)
    /\ UNCHANGED batchVars
    /\ UNCHANGED <<held, spawner, callVars, timeoutAfter, late, nacked, letters,
                   poolVars, autoVars, shutVars, wg, rcptVars>>

\* A Publish that sends its receipt whatever skipReceipt says.
PublishSubmitAlwaysReceipt(l, ok) ==
    /\ pc[l] = "psubmit"
    /\ LET c == held[l] IN
        IF ok
        THEN /\ inflight' = [inflight EXCEPT ![c] = Append(Age(inflight[c]), TRUE)]
             /\ Confirmations' = [Confirmations EXCEPT ![c] = AgeConf(Confirmations[c])]
             /\ chanState' = [chanState EXCEPT ![c] = "avail"]
        ELSE ReturnChannel(c, TRUE)
    /\ publishReceipt(l, IF ok THEN NoError ELSE SubmitError)
    /\ held' = [held EXCEPT ![l] = NoChan]
    /\ pc' = [pc EXCEPT ![l] = "pdone"]
    /\ UNCHANGED <<spawner, callVars, acquireFailed, unacquiredReturn, batchVars, timeoutAfter, late, nacked,
                   letters, autoVars, shutVars, publishReceipts, emitted>>

\* Publish: Channel.Publish once, publishReceipt(letter, err) unless
\* skipReceipt, ReturnChannel(chanHost, err != nil).
PublishSubmit(l, ok) ==
    /\ pc[l] = "psubmit"
    /\ LET c == held[l] IN
        IF ok
        THEN /\ inflight' = [inflight EXCEPT ![c] = Append(Age(inflight[c]), TRUE)]
             /\ Confirmations' = [Confirmations EXCEPT ![c] = AgeConf(Confirmations[c])]
             /\ chanState' = [chanState EXCEPT ![c] = "avail"]
        ELSE ReturnChannel(c, TRUE)
    /\ IF skipReceipt[l]
       THEN UNCHANGED <<wg, receiptTasks>>
       ELSE publishReceipt(l, IF ok THEN NoError ELSE SubmitError)
    /\ held' = [held EXCEPT ![l] = NoChan]
    /\ pc' = [pc EXCEPT ![l] = "pdone"]
    /\ UNCHANGED <<spawner, callVars, acquireFailed, unacquiredReturn, batchVars, timeoutAfter, late, nacked,
                   letters, autoVars, shutVars, publishReceipts, emitted>>

\* A caller invokes PublishWithError(letter, skipReceipt).
PublishWithError(l, skip) ==
    /\ pc[l] = "idle"
    /\ pc' = [pc EXCEPT ![l] = "eget"]
    /\ skipReceipt' = [skipReceipt EXCEPT ![l] = skip]
    /\ UNCHANGED <<held, spawner, result, ctxDone, transient, viaContext, acquireFailed, unacquiredReturn, batchVars,
                   timeoutAfter, late, nacked, letters, poolVars, autoVars,
                   shutVars, wg, rcptVars>>

\* PublishWithError: GetChannelFromPool succeeds.
PublishWithErrorAcquire(l) ==
    /\ pc[l] = "eget"
    /\ ~poolShutdown
    /\ \E c \in Chans :
        /\ chanState[c] = "avail"
        /\ chanState' = [chanState EXCEPT ![c] = "held"]
        /\ held' = [held EXCEPT ![l] = c]
    /\ pc' = [pc EXCEPT ![l] = "esubmit"]
    /\ UNCHANGED <<spawner, callVars, acquireFailed, unacquiredReturn, batchVars, timeoutAfter, late, nacked,
                   letters, inflight, Confirmations, autoVars, shutVars, wg,
                   rcptVars>>

\* PublishWithError: GetChannelFromPool fails; return err.
PublishWithErrorAcquireFail(l) ==
    /\ pc[l] = "eget"
    /\ poolShutdown
    /\ result' = [result EXCEPT ![l] = AcquireError]
    /\ pc' = [pc EXCEPT ![l] = "edone"]
    /\ acquireFailed' = acquireFailed \cup {l}
    /\ UNCHANGED unacquiredReturn
    /\ UNCHANGED batchVars
    /\ UNCHANGED <<held, spawner, skipReceipt, ctxDone, transient, viaContext, timeoutAfter,
                   late, nacked, letters, poolVars, autoVars, shutVars, wg,
                   rcptVars>>

\* PublishWithError: Channel.Publish once, publishReceipt(letter, err) unless
\* skipReceipt, ReturnChannel(chanHost, err != nil), return err.
PublishWithErrorSubmit(l, ok) ==
    /\ pc[l] = "esubmit"
    /\ LET c == held[l] IN
        IF ok
        THEN /\ inflight' = [inflight EXCEPT ![c] = Append(Age(inflight[c]), TRUE)]
             /\ Confirmations' = [Confirmations EXCEPT ![c] = AgeConf(Confirmations[c])]
             /\ chanState' = [chanState EXCEPT ![c] = "avail"]
        ELSE ReturnChannel(c, TRUE)
    /\ IF skipReceipt[l]
       THEN UNCHANGED <<wg, receiptTasks>>
       ELSE publishReceipt(l, IF ok THEN NoError ELSE SubmitError)
    /\ result' = [result EXCEPT ![l] = IF ok THEN NoError ELSE SubmitError]
    /\ held' = [held EXCEPT ![l] = NoChan]
    /\ pc' = [pc EXCEPT ![l] = "edone"]
    /\ UNCHANGED <<spawner, skipReceipt, ctxDone, transient, viaContext, acquireFailed, unacquiredReturn, batchVars,
                   timeoutAfter, late, nacked, letters, autoVars, shutVars,
                   publishReceipts, emitted>>

\* ------------------------------------------ PublishWithConfirmationContext

\* A caller invokes PublishWithConfirmationContext(ctx, letter).
PublishWithConfirmationContext(l) ==
    /\ pc[l] = "idle"
    /\ pc' = [pc EXCEPT ![l] = "get"]
    /\ viaContext' = viaContext \cup {l}
    /\ UNCHANGED <<held, spawner, result, skipReceipt, ctxDone, transient,
                   acquireFailed, unacquiredReturn, batchVars, timeoutAfter, late, nacked, letters, poolVars,
                   autoVars, shutVars, wg, rcptVars>>

\* The owner of ctx cancels it (or its deadline passes): ctx.Done() is closed.
CancelContext(l) ==
    /\ l \in viaContext
    /\ pc[l] # "done"
    /\ ~ctxDone[l]
    /\ ctxDone' = [ctxDone EXCEPT ![l] = TRUE]
    /\ UNCHANGED <<pc, held, spawner, result, skipReceipt, transient, viaContext,
                   acquireFailed, unacquiredReturn, batchVars, timeoutAfter, late, nacked, letters, poolVars,
                   autoVars, shutVars, wg, rcptVars>>

\* GetChannelFromPool succeeds, then chanHost.FlushConfirms().
ContextGetChannel(l) ==
    /\ pc[l] = "get"
    /\ ~poolShutdown
    /\ \E c \in Chans :
        /\ chanState[c] = "avail"
        /\ chanState' = [chanState EXCEPT ![c] = "held"]
        /\ Confirmations' = [Confirmations EXCEPT ![c] = <<>>]
        /\ held' = [held EXCEPT ![l] = c]
    /\ pc' = [pc EXCEPT ![l] = "publish"]
    /\ UNCHANGED <<spawner, callVars, acquireFailed, unacquiredReturn, batchVars, timeoutAfter, late, nacked,
                   letters, inflight, autoVars, shutVars, wg, rcptVars>>

\* GetChannelFromPool fails: failure receipt, return.
ContextGetChannelFail(l) ==
    /\ pc[l] = "get"
    /\ poolShutdown
    /\ publishReceipt(l, AcquireError)
    /\ pc' = [pc EXCEPT ![l] = "done"]
    /\ acquireFailed' = acquireFailed \cup {l}
    /\ UNCHANGED unacquiredReturn
    /\ UNCHANGED batchVars
    /\ UNCHANGED <<held, spawner, callVars, timeoutAfter, late, nacked, letters,
                   poolVars, autoVars, shutVars, publishReceipts, emitted>>

\* Label Publish: Channel.Publish succeeds (there is no timer to start).
ContextPublishOk(l) ==
    /\ pc[l] = "publish"
    /\ LET c == held[l] IN
        /\ inflight' = [inflight EXCEPT ![c] = Append(Age(inflight[c]), TRUE)]
        /\ Confirmations' = [Confirmations EXCEPT ![c] = AgeConf(Confirmations[c])]
    /\ pc' = [pc EXCEPT ![l] = "wait"]
    /\ timeoutAfter' = [timeoutAfter EXCEPT ![l] = "none"]   \* no timer in this variant
    /\ UNCHANGED <<held, spawner, callVars, acquireFailed, unacquiredReturn, batchVars, late,
                   nacked, letters, chanState, autoVars, shutVars, wg, rcptVars>>

\* Channel.Publish returns an error: ReturnChannel(chanHost, true); continue.
ContextPublishFail(l) ==
    /\ pc[l] = "publish"
    /\ ReturnChannel(held[l], TRUE)
    /\ held' = [held EXCEPT ![l] = NoChan]
    /\ pc' = [pc EXCEPT ![l] = "get"]
    /\ timeoutAfter' = [timeoutAfter EXCEPT ![l] = "none"]   \* no timer in this variant
    /\ UNCHANGED <<spawner, callVars, acquireFailed, unacquiredReturn, batchVars, late, nacked,
                   letters, autoVars, shutVars, wg, rcptVars>>

\* A cancellation branch that treats the channel as failed.
ContextDoneErred(l) ==
    /\ pc[l] = "wait"
    /\ ctxDone[l]
    /\ publishReceipt(l, ContextError)
    /\ ReturnChannel(held[l], TRUE)
    /\ held' = [held EXCEPT ![l] = NoChan]
    /\ pc' = [pc EXCEPT ![l] = "done"]
    /\ timeoutAfter' = [timeoutAfter EXCEPT ![l] = "none"]   \* no timer in this variant
    /\ UNCHANGED <<spawner, callVars, acquireFailed, unacquiredReturn, batchVars, late, nacked,
                   letters, autoVars, shutVars, publishReceipts, emitted>>

\* case <-ctx.Done(): failure receipt, ReturnChannel(chanHost, false), return.
ContextDone(l) ==
    /\ pc[l] = "wait"
    /\ ctxDone[l]
    /\ publishReceipt(l, ContextError)
    /\ ReturnChannel(held[l], FALSE)
    /\ held' = [held EXCEPT ![l] = NoChan]
    /\ pc' = [pc EXCEPT ![l] = "done"]
    /\ timeoutAfter' = [timeoutAfter EXCEPT ![l] = "none"]   \* no timer in this variant
    /\ UNCHANGED <<spawner, callVars, acquireFailed, unacquiredReturn, batchVars, late, nacked,
                   letters, autoVars, shutVars, publishReceipts, emitted>>

\* case confirmation := <-chanHost.Confirmations with confirmation.Ack:
\* success receipt, ReturnChannel(chanHost, false), return.
ContextConsumeAck(l) ==
    /\ pc[l] = "wait"
    /\ LET c == held[l] IN
        /\ Confirmations[c] # <<>>
        /\ Head(Confirmations[c]).Ack
        /\ chanState' = [chanState EXCEPT ![c] = "avail"]
        /\ Confirmations' = [Confirmations EXCEPT ![c] = Tail(Confirmations[c])]
        /\ UNCHANGED inflight
    /\ publishReceipt(l, NoError)
    /\ held' = [held EXCEPT ![l] = NoChan]
    /\ pc' = [pc EXCEPT ![l] = "done"]
    /\ timeoutAfter' = [timeoutAfter EXCEPT ![l] = "none"]   \* no timer in this variant
    /\ UNCHANGED <<spawner, callVars, acquireFailed, unacquiredReturn, batchVars, late, nacked,
                   letters, autoVars, shutVars, publishReceipts, emitted>>

\* case confirmation := <-chanHost.Confirmations with !confirmation.Ack:
\* goto Publish on the same channel.
ContextConsumeNack(l) ==
    /\ pc[l] = "wait"
    /\ LET c == held[l] IN
        /\ Confirmations[c] # <<>>
        /\ ~Head(Confirmations[c]).Ack
        /\ Confirmations' = [Confirmations EXCEPT ![c] = Tail(Confirmations[c])]
    /\ nacked' = nacked \cup {l}
    /\ pc' = [pc EXCEPT ![l] = "publish"]
    /\ UNCHANGED <<held, spawner, callVars, acquireFailed, unacquiredReturn, batchVars, timeoutAfter, late,
                   letters, chanState, inflight, autoVars, shutVars, wg, rcptVars>>

\* ------------------------------------------------------ transient channels

\* A caller invokes PublishWithTransient(letter).
PublishWithTransient(l) ==
    /\ pc[l] = "idle"
    /\ pc' = [pc EXCEPT ![l] = "tget"]
    /\ UNCHANGED <<held, spawner, callVars, acquireFailed, unacquiredReturn, batchVars, timeoutAfter, late,
                   nacked, letters, poolVars, autoVars, shutVars, wg, rcptVars>>

\* PublishWithTransient: GetTransientChannel(false) opens a new channel.
PublishWithTransientAcquire(l) ==
    /\ pc[l] = "tget"
    /\ ~poolShutdown
    /\ transient' = [transient EXCEPT ![l] = NewTransient]
    /\ pc' = [pc EXCEPT ![l] = "tsubmit"]
    /\ UNCHANGED <<held, spawner, result, skipReceipt, ctxDone, viaContext,
                   acquireFailed, unacquiredReturn, batchVars, timeoutAfter, late, nacked, letters, poolVars,
                   autoVars, shutVars, wg, rcptVars>>

\* PublishWithTransient: GetTransientChannel fails; return the error.
PublishWithTransientAcquireFail(l) ==
    /\ pc[l] = "tget"
    /\ poolShutdown
    /\ result' = [result EXCEPT ![l] = AcquireError]
    /\ acquireFailed' = acquireFailed \cup {l}
    /\ UNCHANGED unacquiredReturn
    /\ UNCHANGED batchVars
    /\ pc' = [pc EXCEPT ![l] = "tdone"]
    /\ UNCHANGED <<held, spawner, skipReceipt, ctxDone, transient, viaContext,
                   timeoutAfter, late, nacked, letters, poolVars, autoVars,
                   shutVars, wg, rcptVars>>

\* PublishWithTransient: return channel.Publish(...), then the deferred
\* channel.Close().
PublishWithTransientSubmit(l, ok) ==
    /\ pc[l] = "tsubmit"
    /\ result' = [result EXCEPT ![l] = IF ok THEN NoError ELSE SubmitError]
    /\ transient' = [transient EXCEPT ![l] = NoTransient]
    /\ pc' = [pc EXCEPT ![l] = "tdone"]
    /\ UNCHANGED <<held, spawner, skipReceipt, ctxDone, viaContext, acquireFailed, unacquiredReturn, batchVars,
                   timeoutAfter, late, nacked, letters, poolVars, autoVars,
                   shutVars, wg, rcptVars>>

\* A caller invokes PublishWithConfirmationTransient(letter, timeout).
PublishWithConfirmationTransient(l) ==
    /\ pc[l] = "idle"
    /\ pc' = [pc EXCEPT ![l] = "ctget"]
    /\ UNCHANGED <<held, spawner, callVars, acquireFailed, unacquiredReturn, batchVars, timeoutAfter, late,
                   nacked, letters, poolVars, autoVars, shutVars, wg, rcptVars>>

\* An acquisition that lends a pooled channel to the transient call.
TransientGetChannelFromPool(l) ==
    /\ pc[l] = "ctget"
    /\ ~poolShutdown
    /\ \E c \in Chans :
        /\ chanState[c] = "avail"
        /\ chanState' = [chanState EXCEPT ![c] = "held"]
    /\ transient' = [transient EXCEPT ![l] = NewTransient]
    /\ pc' = [pc EXCEPT ![l] = "ctpublish"]
    /\ UNCHANGED <<held, spawner, result, skipReceipt, ctxDone, viaContext,
                   acquireFailed, unacquiredReturn, batchVars, timeoutAfter, late, nacked, letters, inflight,
                   Confirmations, autoVars, shutVars, wg, rcptVars>>

\* GetTransientChannel(true) opens a new channel; confirms is made and
\* registered with channel.NotifyPublish.
TransientGetChannel(l) ==
    /\ pc[l] = "ctget"
    /\ ~poolShutdown
    /\ transient' = [transient EXCEPT ![l] = NewTransient]
    /\ pc' = [pc EXCEPT ![l] = "ctpublish"]
    /\ UNCHANGED <<held, spawner, result, skipReceipt, ctxDone, viaContext,
                   acquireFailed, unacquiredReturn, batchVars, timeoutAfter, late, nacked, letters, poolVars,
                   autoVars, shutVars, wg, rcptVars>>

\* GetTransientChannel fails: failure receipt, return.
TransientGetChannelFail(l) ==
    /\ pc[l] = "ctget"
    /\ poolShutdown
    /\ publishReceipt(l, AcquireError)
    /\ acquireFailed' = acquireFailed \cup {l}
    /\ UNCHANGED unacquiredReturn
    /\ UNCHANGED batchVars
    /\ pc' = [pc EXCEPT ![l] = "ctdone"]
    /\ UNCHANGED <<held, spawner, callVars, timeoutAfter, late, nacked, letters,
                   poolVars, autoVars, shutVars, publishReceipts, emitted>>

\* Label Publish: a new timer, channel.Publish succeeds.
TransientPublishOk(l) ==
    /\ pc[l] = "ctpublish"
    /\ transient' = [transient EXCEPT ![l].inflight = 1]
    /\ timeoutAfter' = [timeoutAfter EXCEPT ![l] = "running"]
    /\ pc' = [pc EXCEPT ![l] = "ctwait"]
    /\ UNCHANGED <<held, spawner, result, skipReceipt, ctxDone, viaContext,
                   acquireFailed, unacquiredReturn, batchVars, late, nacked, letters, poolVars, autoVars,
                   shutVars, wg, rcptVars>>

\* A submission error on the transient channel that goes back to the top of
\* the loop and leaves the failed channel open.
TransientPublishFailNoClose(l) ==
    /\ pc[l] = "ctpublish"
    /\ timeoutAfter' = [timeoutAfter EXCEPT ![l] = "none"]
    /\ pc' = [pc EXCEPT ![l] = "ctget"]
    /\ UNCHANGED <<held, spawner, callVars, acquireFailed, unacquiredReturn, batchVars, late, nacked,
                   letters, poolVars, autoVars, shutVars, wg, rcptVars>>

\* channel.Publish returns an error: channel.Close(); continue.
TransientPublishFail(l) ==
    /\ pc[l] = "ctpublish"
    /\ transient' = [transient EXCEPT ![l] = NoTransient]
    /\ timeoutAfter' = [timeoutAfter EXCEPT ![l] = "none"]
    /\ pc' = [pc EXCEPT ![l] = "ctget"]
    /\ UNCHANGED <<held, spawner, result, skipReceipt, ctxDone, viaContext,
                   acquireFailed, unacquiredReturn, batchVars, late, nacked, letters, poolVars, autoVars,
                   shutVars, wg, rcptVars>>

\* The broker confirms the publish outstanding on the transient channel.
TransientBrokerConfirm(l, ack) ==
    /\ transient[l].open
    /\ transient[l].inflight = 1
    /\ transient' = [transient EXCEPT ![l].inflight = 0,
                                      ![l].confirms = Append(@, ack)]
    /\ UNCHANGED <<pc, held, spawner, result, skipReceipt, ctxDone, viaContext,
                   acquireFailed, unacquiredReturn, batchVars, timeoutAfter, late, nacked, letters, poolVars,
                   autoVars, shutVars, wg, rcptVars>>

\* The timer of the transient call delivers on its channel.
TransientTimerFire(l) ==
    /\ pc[l] = "ctwait"
    /\ timeoutAfter[l] = "running"
    /\ timeoutAfter' = [timeoutAfter EXCEPT ![l] = "fired"]
    /\ UNCHANGED <<pc, held, spawner, callVars, acquireFailed, unacquiredReturn, batchVars, late, nacked,
                   letters, poolVars, autoVars, shutVars, wg, rcptVars>>

\* case <-timeoutAfter: failure receipt, channel.Close(), return.
TransientTimeout(l) ==
    /\ pc[l] = "ctwait"
    /\ timeoutAfter[l] = "fired"
    /\ publishReceipt(l, TimeoutError)
    /\ transient' = [transient EXCEPT ![l] = NoTransient]
    /\ timeoutAfter' = [timeoutAfter EXCEPT ![l] = "none"]
    /\ pc' = [pc EXCEPT ![l] = "ctdone"]
    /\ UNCHANGED <<held, spawner, result, skipReceipt, ctxDone, viaContext,
                   acquireFailed, unacquiredReturn, batchVars, late, nacked, letters, poolVars, autoVars,
                   shutVars, publishReceipts, emitted>>

\* case confirmation := <-confirms with confirmation.Ack: success receipt,
\* channel.Close(), return.
TransientConsumeAck(l) ==
    /\ pc[l] = "ctwait"
    /\ transient[l].confirms # <<>>
    /\ Head(transient[l].confirms)
    /\ publishReceipt(l, NoError)
    /\ transient' = [transient EXCEPT ![l] = NoTransient]
    /\ timeoutAfter' = [timeoutAfter EXCEPT ![l] = "none"]
    /\ pc' = [pc EXCEPT ![l] = "ctdone"]
    /\ UNCHANGED <<held, spawner, result, skipReceipt, ctxDone, viaContext,
                   acquireFailed, unacquiredReturn, batchVars, late, nacked, letters, poolVars, autoVars,
                   shutVars, publishReceipts, emitted>>

\* case confirmation := <-confirms with !confirmation.Ack: goto Publish.
TransientConsumeNack(l) ==
    /\ pc[l] = "ctwait"
    /\ transient[l].confirms # <<>>
    /\ ~Head(transient[l].confirms)
    /\ transient' = [transient EXCEPT ![l].confirms = Tail(@)]
    /\ nacked' = nacked \cup {l}
    /\ pc' = [pc EXCEPT ![l] = "ctpublish"]
    /\ UNCHANGED <<held, spawner, result, skipReceipt, ctxDone, viaContext,
                   acquireFailed, unacquiredReturn, batchVars, timeoutAfter, late, letters, poolVars, autoVars,
                   shutVars, wg, rcptVars>>

\* ------------------------------------------------------- broker and pool

\* The broker confirms the oldest unconfirmed publish of a channel.
BrokerConfirm(c, ack) ==
    /\ inflight[c] # <<>>
    /\ Confirmations' = [Confirmations EXCEPT ![c] =
            Append(Confirmations[c], [Ack |-> ack, Latest |-> Head(inflight[c])])]
    /\ inflight' = [inflight EXCEPT ![c] = Tail(inflight[c])]
    /\ UNCHANGED <<pc, held, spawner, callVars, acquireFailed, unacquiredReturn, batchVars, timeoutAfter, late, nacked, letters, chanState, autoVars,
                   shutVars, wg, rcptVars>>

\* The pool inserts the replacement of a discarded channel.
ReplaceChannel(c) ==
    /\ chanState[c] = "replacing"
    /\ ~poolShutdown
    /\ chanState' = [chanState EXCEPT ![c] = "avail"]
    /\ UNCHANGED <<pc, held, spawner, callVars, acquireFailed, unacquiredReturn, batchVars, timeoutAfter, late, nacked, letters, inflight, Confirmations,
                   autoVars, shutVars, wg, rcptVars>>

\* ---------------------------------------------------------------- receipts

\* publishReceipt's goroutine: pub.publishReceipts <- publishReceipt; wg.Done().
EmitReceipt(r) ==
    /\ BagIn(r, receiptTasks)
    /\ Len(publishReceipts) < ReceiptsCap
    /\ receiptTasks' = receiptTasks (-) SetToBag({r})
    /\ publishReceipts' = Append(publishReceipts, r)
    /\ emitted' = emitted (+) SetToBag({r})
    /\ wg' = wg - 1
    /\ UNCHANGED <<pc, held, spawner, callVars, acquireFailed, unacquiredReturn, batchVars, timeoutAfter, late, nacked, letters, poolVars, autoVars,
                   shutVars>>

\* A subscriber of PublishReceipts() reads one receipt.
ReadReceipt ==
    /\ publishReceipts # <<>>
    /\ publishReceipts' = Tail(publishReceipts)
    /\ UNCHANGED <<pc, held, spawner, callVars, acquireFailed, unacquiredReturn, batchVars, timeoutAfter, late, nacked, letters, poolVars, autoVars,
                   shutVars, wg, receiptTasks, emitted>>

\* ------------------------------------------------------------- QueueLetter

\* A caller invokes QueueLetter(letter); it reaches safeSend's select.
QueueLetter(l) ==
    /\ pc[l] = "idle"
    /\ pc' = [pc EXCEPT ![l] = "calling"]
    /\ late' = IF shutPc = "returned" /\ shutdownPools THEN late \cup {l} ELSE late
    /\ UNCHANGED <<held, spawner, callVars, acquireFailed, unacquiredReturn, batchVars, timeoutAfter, nacked, letters, poolVars, autoVars, shutVars, wg,
                   rcptVars>>

\* safeSend's select: Go picks any ready case; with none ready the call blocks.
safeSend(l) ==
    /\ pc[l] = "calling"
    /\ \/ /\ AwaitShutdown                      \* case <-pub.AwaitShutdown()
          /\ pc' = [pc EXCEPT ![l] = "rejected"]  \* return false
          /\ UNCHANGED letters
       \/ /\ Len(letters) < LettersCap          \* case pub.letters <- letter
          /\ letters' = Append(letters, l)
          /\ pc' = [pc EXCEPT ![l] = "queued"]    \* return true
    /\ UNCHANGED <<held, spawner, callVars, acquireFailed, unacquiredReturn, batchVars, timeoutAfter, late, nacked, poolVars, autoVars, shutVars, wg,
                   rcptVars>>

\* ------------------------------------------------------------ QueueLetters

\* The slices a caller passes to QueueLetters: distinct letters, in any order.
Slices ==
    {q \in UNION {[1..n -> Letters] : n \in 0..MaxBatchLen} :
        \A i, j \in DOMAIN q : i # j => q[i] # q[j]}

\* A caller invokes QueueLetters(letters) with letters it has not submitted.
QueueLetters(ls) ==
    /\ batchPc = "idle"
    /\ \A i \in DOMAIN ls : pc[ls[i]] = "idle"
    /\ batch' = ls
    /\ batchNext' = 1
    /\ batchPc' = "loop"
    /\ pc' = [l \in Letters |-> IF \E i \in DOMAIN ls : ls[i] = l THEN "batched" ELSE pc[l]]
    /\ UNCHANGED <<held, spawner, callVars, acquireFailed, unacquiredReturn, batchOk,
                   timeoutAfter, late, nacked, letters, poolVars, autoVars, shutVars,
                   wg, rcptVars>>

\* A QueueLetters loop that goes on with the next letter of the slice after
\* a failed send.
QueueLettersSendAll ==
    /\ batchPc = "loop"
    /\ batchNext <= Len(batch)
    /\ LET l == batch[batchNext] IN
        \/ /\ AwaitShutdown
           /\ pc' = [pc EXCEPT ![l] = "rejected"]
           /\ batchOk' = FALSE
           /\ batchNext' = batchNext + 1
           /\ UNCHANGED <<letters, batchPc>>
        \/ /\ Len(letters) < LettersCap
           /\ letters' = Append(letters, l)
           /\ pc' = [pc EXCEPT ![l] = "queued"]
           /\ batchNext' = batchNext + 1
           /\ UNCHANGED <<batchPc, batchOk>>
    /\ UNCHANGED <<held, spawner, callVars, acquireFailed, unacquiredReturn, batch,
                   timeoutAfter, late, nacked, poolVars, autoVars, shutVars, wg,
                   rcptVars>>

\* One iteration of QueueLetters' loop: safeSend(letter) for the next letter
\* of the slice; if !ok, return false.
QueueLettersSend ==
    /\ batchPc = "loop"
    /\ batchNext <= Len(batch)
    /\ LET l == batch[batchNext] IN
        \/ /\ AwaitShutdown                      \* case <-pub.AwaitShutdown()
           /\ pc' = [pc EXCEPT ![l] = "rejected"]
           /\ batchOk' = FALSE                   \* return false
           /\ batchPc' = "returned"
           /\ UNCHANGED <<letters, batchNext>>
        \/ /\ Len(letters) < LettersCap          \* case pub.letters <- letter
           /\ letters' = Append(letters, l)
           /\ pc' = [pc EXCEPT ![l] = "queued"]
           /\ batchNext' = batchNext + 1
           /\ UNCHANGED <<batchPc, batchOk>>
    /\ UNCHANGED <<held, spawner, callVars, acquireFailed, unacquiredReturn, batch,
                   timeoutAfter, late, nacked, poolVars, autoVars, shutVars, wg,
                   rcptVars>>

\* The loop of QueueLetters is through the slice: return true.
QueueLettersReturn ==
    /\ batchPc = "loop"
    /\ batchNext > Len(batch)
    /\ batchOk' = TRUE
    /\ batchPc' = "returned"
    /\ UNCHANGED <<pc, held, spawner, callVars, acquireFailed, unacquiredReturn, batch,
                   batchNext, timeoutAfter, late, nacked, letters, poolVars, autoVars,
                   shutVars, wg, rcptVars>>

\* ------------------------------------------------------ StartAutoPublishing

\* if !pub.isAutoStarted(): the atomic load of the flag.
StartAutoPublishing(s) ==
    /\ starter[s] = "idle"
    /\ starter' = [starter EXCEPT ![s] = IF isAutoStarted THEN "done" ELSE "start"]
    /\ UNCHANGED <<pc, held, spawner, callVars, acquireFailed, unacquiredReturn, batchVars, timeoutAfter, late, nacked, letters, poolVars, autoStarted, loop,
                   loopLetter, sem, shutVars, wg, rcptVars>>

\* pub.setAutoStarted(true); pub.wg.Add(1); go pub.startAutoPublishingLoop().
startAutoPublishingLoop(s) ==
    /\ starter[s] = "start"
    /\ autoStarted' = TRUE
    /\ wg' = wg + 1
    /\ loop' = [loop EXCEPT ![s] = "select"]
    /\ starter' = [starter EXCEPT ![s] = "done"]
    /\ UNCHANGED <<pc, held, spawner, callVars, acquireFailed, unacquiredReturn, batchVars, timeoutAfter, late, nacked, letters, poolVars, loopLetter, sem,
                   shutVars, rcptVars>>

\* deliverLetters' select, case <-pub.AwaitShutdown(): return; then
\* pub.setAutoStarted(false) and the deferred pub.wg.Done().
deliverLettersShutdown(s) ==
    /\ loop[s] = "select"
    /\ AwaitShutdown
    /\ loop' = [loop EXCEPT ![s] = "exited"]
    /\ autoStarted' = FALSE
    /\ wg' = wg - 1
    /\ UNCHANGED <<pc, held, spawner, callVars, acquireFailed, unacquiredReturn, batchVars, timeoutAfter, late, nacked, letters, poolVars, starter,
                   loopLetter, sem, shutVars, rcptVars>>

\* deliverLetters' select, case letter := <-pub.letters.
deliverLettersReceive(s) ==
    /\ loop[s] = "select"
    /\ letters # <<>>
    /\ loopLetter' = [loopLetter EXCEPT ![s] = Head(letters)]
    /\ letters' = Tail(letters)
    /\ loop' = [loop EXCEPT ![s] = "sem"]
    /\ UNCHANGED <<pc, held, spawner, callVars, acquireFailed, unacquiredReturn, batchVars, timeoutAfter, late, nacked, poolVars, autoStarted, starter, sem,
                   shutVars, wg, rcptVars>>

\* parallelPublishSemaphore <- struct{}{}; pub.wg.Add(1); go func(letter).
deliverLettersSpawn(s) ==
    /\ loop[s] = "sem"
    /\ sem[s] < SemaphoreCap
    /\ sem' = [sem EXCEPT ![s] = sem[s] + 1]
    /\ wg' = wg + 1
    /\ pc' = [pc EXCEPT ![loopLetter[s]] = "get"]
    /\ spawner' = [spawner EXCEPT ![loopLetter[s]] = s]
    /\ loopLetter' = [loopLetter EXCEPT ![s] = NoLetter]
    /\ loop' = [loop EXCEPT ![s] = "select"]
    /\ UNCHANGED <<held, callVars, acquireFailed, unacquiredReturn, batchVars, timeoutAfter, late, nacked, letters,
                   poolVars, autoStarted, starter, shutVars, rcptVars>>

\* A spawned goroutine that ends without taking its token back from the
\* semaphore.
AttemptReleaseLeak(l) ==
    /\ pc[l] = "release"
    /\ wg' = wg - 1
    /\ pc' = [pc EXCEPT ![l] = "done"]
    /\ UNCHANGED <<held, spawner, callVars, acquireFailed, unacquiredReturn, batchVars, timeoutAfter, late, nacked, letters, poolVars, autoVars,
                   shutVars, rcptVars>>

\* The spawned goroutine after PublishWithConfirmation returned:
\* <-parallelPublishSemaphore, then the deferred pub.wg.Done().
AttemptRelease(l) ==
    /\ pc[l] = "release"
    /\ sem' = [sem EXCEPT ![spawner[l]] = sem[spawner[l]] - 1]
    /\ wg' = wg - 1
    /\ pc' = [pc EXCEPT ![l] = "done"]
    /\ UNCHANGED <<held, spawner, callVars, acquireFailed, unacquiredReturn, batchVars, timeoutAfter, late, nacked, letters, poolVars, autoStarted, starter,
                   loop, loopLetter, shutVars, rcptVars>>

\* ---------------------------------------------------------------- Shutdown

\* Shutdown(shutdownPools): close(pub.shutdownSignal).
Shutdown(b) ==
    /\ shutPc = "idle"
    /\ shutdownSignal' = "closed"
    /\ shutdownPools' = b
    /\ shutPc' = "closed"
    /\ UNCHANGED <<pc, held, spawner, callVars, acquireFailed, unacquiredReturn, batchVars, timeoutAfter, late, nacked, letters, poolVars, autoVars,
                   poolShutdown, wg, rcptVars>>

\* if shutdownPools { pub.ConnectionPool.Shutdown() }
ShutdownPools ==
    /\ shutPc = "closed"
    /\ poolShutdown' = (poolShutdown \/ shutdownPools)
    /\ shutPc' = "wait"
    /\ UNCHANGED <<pc, held, spawner, callVars, acquireFailed, unacquiredReturn, batchVars, timeoutAfter, late, nacked, letters, poolVars, autoVars,
                   shutdownPools, shutdownSignal, wg, rcptVars>>

\* A Shutdown that returns without joining the WaitGroup.
ShutdownNoWait ==
    /\ shutPc = "wait"
    /\ shutPc' = "returned"
    /\ UNCHANGED <<pc, held, spawner, callVars, acquireFailed, unacquiredReturn, batchVars, timeoutAfter, late, nacked, letters, poolVars, autoVars,
                   shutdownPools, shutdownSignal, poolShutdown, wg, rcptVars>>

\* pub.wg.Wait() returns once the counter is zero.
ShutdownWait ==
    /\ shutPc = "wait"
    /\ wg = 0
    /\ shutPc' = "returned"
    /\ UNCHANGED <<pc, held, spawner, callVars, acquireFailed, unacquiredReturn, batchVars, timeoutAfter, late, nacked, letters, poolVars, autoVars,
                   shutdownPools, shutdownSignal, poolShutdown, wg, rcptVars>>

\* A second call of Shutdown after the first returned: close(pub.shutdownSignal)
\* on the channel the first call closed is a run-time panic (close of closed
\* channel), which Shutdown does not recover from.
ShutdownAgain(b) ==
    /\ shutPc = "returned"
    /\ shutdownSignal = "closed"
    /\ shutPc' = "panicked"
    /\ UNCHANGED <<pc, held, spawner, callVars, acquireFailed, unacquiredReturn, batchVars,
                   timeoutAfter, late, nacked, letters, poolVars, autoVars,
                   shutdownPools, shutdownSignal, poolShutdown, wg, rcptVars>>

Next ==
    \/ \E l \in Letters : DirectCall(l)
    \/ \E l \in Letters : GetChannel(l)
    \/ \E l \in Letters : GetChannelFail(l)
    \/ \E l \in Letters : PublishOk(l)
    \/ \E l \in Letters : PublishFail(l)
    \/ \E l \in Letters : Timeout(l)
    \/ \E l \in Letters : TimerFire(l)
    \/ \E l \in Letters : ConsumeAck(l)
    \/ \E l \in Letters : ConsumeNack(l)
    \/ \E c \in Chans, ack \in BOOLEAN : BrokerConfirm(c, ack)
    \/ \E c \in Chans : ReplaceChannel(c)
    \/ \E r \in BagToSet(receiptTasks) : EmitReceipt(r)
    \/ ReadReceipt
    \/ \E l \in Letters : QueueLetter(l)
    \/ \E l \in Letters : safeSend(l)
    \/ \E s \in Starters : StartAutoPublishing(s)
    \/ \E s \in Starters : startAutoPublishingLoop(s)
    \/ \E s \in Starters : deliverLettersShutdown(s)
    \/ \E s \in Starters : deliverLettersReceive(s)
    \/ \E s \in Starters : deliverLettersSpawn(s)
    \/ \E l \in Letters : AttemptRelease(l)
    \/ \E b \in BOOLEAN : Shutdown(b)
    \/ ShutdownPools
    \/ ShutdownWait

Spec == Init /\ [][Next]_vars

\* Direct callers of PublishWithConfirmation only, with the pool, the broker,
\* the receipt goroutines and Shutdown.
ConfirmNext ==
    \/ \E l \in Letters : DirectCall(l)
    \/ \E l \in Letters : GetChannel(l)
    \/ \E l \in Letters : GetChannelFail(l)
    \/ \E l \in Letters : PublishOk(l)
    \/ \E l \in Letters : PublishFail(l)
    \/ \E l \in Letters : Timeout(l)
    \/ \E l \in Letters : TimerFire(l)
    \/ \E l \in Letters : ConsumeAck(l)
    \/ \E l \in Letters : ConsumeNack(l)
    \/ \E c \in Chans, ack \in BOOLEAN : BrokerConfirm(c, ack)
    \/ \E c \in Chans : ReplaceChannel(c)
    \/ \E r \in BagToSet(receiptTasks) : EmitReceipt(r)
    \/ ReadReceipt
    \/ \E b \in BOOLEAN : Shutdown(b)
    \/ ShutdownPools
    \/ ShutdownWait

ConfirmSpec == Init /\ [][ConfirmNext]_vars

\* A healthy environment for direct calls: every submission succeeds and the
\* broker confirms every publish (ack or nack), the pool is never shut down.
\* The goroutines keep running, the broker keeps confirming, the receipt
\* subscriber keeps reading, and a wait ends by a confirmation or the timer.
HealthyNext ==
    \/ \E l \in Letters : DirectCall(l)
    \/ \E l \in Letters : GetChannel(l)
    \/ \E l \in Letters : PublishOk(l)
    \/ \E l \in Letters : Timeout(l)
    \/ \E l \in Letters : TimerFire(l)
    \/ \E l \in Letters : ConsumeAck(l)
    \/ \E l \in Letters : ConsumeNack(l)
    \/ \E c \in Chans, ack \in BOOLEAN : BrokerConfirm(c, ack)
    \/ \E r \in BagToSet(receiptTasks) : EmitReceipt(r)
    \/ ReadReceipt

HealthyFairness ==
    /\ \A l \in Letters : WF_vars(GetChannel(l))
    /\ \A l \in Letters : WF_vars(PublishOk(l))
    /\ \A l \in Letters : WF_vars(TimerFire(l))
    /\ \A l \in Letters : WF_vars(ConsumeAck(l) \/ ConsumeNack(l) \/ Timeout(l))
    /\ \A c \in Chans : WF_vars(\E ack \in BOOLEAN : BrokerConfirm(c, ack))
    /\ WF_vars(\E r \in BagToSet(receiptTasks) : EmitReceipt(r))
    /\ WF_vars(ReadReceipt)

HealthySpec == Init /\ [][HealthyNext]_vars /\ HealthyFairness

\* Auto-publishing against a broker that acks every publish in time: no
\* submission error, no nack, no timeout.
AckNext ==
    \/ \E l \in Letters : QueueLetter(l)
    \/ \E l \in Letters : safeSend(l)
    \/ \E s \in Starters : StartAutoPublishing(s)
    \/ \E s \in Starters : startAutoPublishingLoop(s)
    \/ \E s \in Starters : deliverLettersShutdown(s)
    \/ \E s \in Starters : deliverLettersReceive(s)
    \/ \E s \in Starters : deliverLettersSpawn(s)
    \/ \E l \in Letters : GetChannel(l)
    \/ \E l \in Letters : GetChannelFail(l)
    \/ \E l \in Letters : PublishOk(l)
    \/ \E c \in Chans : BrokerConfirm(c, TRUE)
    \/ \E l \in Letters : ConsumeAck(l)
    \/ \E l \in Letters : AttemptRelease(l)
    \/ \E r \in BagToSet(receiptTasks) : EmitReceipt(r)
    \/ ReadReceipt
    \/ \E b \in BOOLEAN : Shutdown(b)
    \/ ShutdownPools
    \/ ShutdownWait

AckFairness ==
    /\ \A s \in Starters : WF_vars(startAutoPublishingLoop(s))
    /\ \A s \in Starters : WF_vars(deliverLettersShutdown(s) \/ deliverLettersReceive(s))
    /\ \A s \in Starters : WF_vars(deliverLettersSpawn(s))
    /\ \A l \in Letters : WF_vars(GetChannel(l))
    /\ \A l \in Letters : WF_vars(GetChannelFail(l))
    /\ \A l \in Letters : WF_vars(PublishOk(l))
    /\ \A l \in Letters : WF_vars(ConsumeAck(l))
    /\ \A l \in Letters : WF_vars(AttemptRelease(l))
    /\ \A c \in Chans : WF_vars(BrokerConfirm(c, TRUE))
    /\ WF_vars(\E r \in BagToSet(receiptTasks) : EmitReceipt(r))
    /\ WF_vars(ReadReceipt)
    /\ WF_vars(ShutdownPools)
    /\ WF_vars(ShutdownWait)

AckSpec == Init /\ [][AckNext]_vars /\ AckFairness

\* Direct callers of Publish, PublishWithError and PublishWithConfirmation
\* sharing the pool, with the broker, the receipt goroutines and Shutdown.
PublishNext ==
    \/ \E l \in Letters, skip \in BOOLEAN : Publish(l, skip)
    \/ \E l \in Letters : PublishAcquire(l)
    \/ \E l \in Letters : PublishAcquireFail(l)
    \/ \E l \in Letters, ok \in BOOLEAN : PublishSubmit(l, ok)
    \/ \E l \in Letters, skip \in BOOLEAN : PublishWithError(l, skip)
    \/ \E l \in Letters : PublishWithErrorAcquire(l)
    \/ \E l \in Letters : PublishWithErrorAcquireFail(l)
    \/ \E l \in Letters, ok \in BOOLEAN : PublishWithErrorSubmit(l, ok)
    \/ \E l \in Letters : DirectCall(l)
    \/ \E l \in Letters : GetChannel(l)
    \/ \E l \in Letters : GetChannelFail(l)
    \/ \E l \in Letters : PublishOk(l)
    \/ \E l \in Letters : PublishFail(l)
    \/ \E l \in Letters : TimerFire(l)
    \/ \E l \in Letters : Timeout(l)
    \/ \E l \in Letters : ConsumeAck(l)
    \/ \E l \in Letters : ConsumeNack(l)
    \/ \E c \in Chans, ack \in BOOLEAN : BrokerConfirm(c, ack)
    \/ \E c \in Chans : ReplaceChannel(c)
    \/ \E r \in BagToSet(receiptTasks) : EmitReceipt(r)
    \/ ReadReceipt
    \/ \E b \in BOOLEAN : Shutdown(b)
    \/ ShutdownPools
    \/ ShutdownWait

PublishSpec == Init /\ [][PublishNext]_vars

\* Auto-publishing against a broker that may ack or nack every publish, with
\* every goroutine, the broker, the timers and the receipt subscriber kept
\* running (Go schedules every runnable goroutine and a select with a ready
\* case is eventually taken).
AutoNext ==
    \/ \E l \in Letters : QueueLetter(l)
    \/ \E l \in Letters : safeSend(l)
    \/ \E s \in Starters : StartAutoPublishing(s)
    \/ \E s \in Starters : startAutoPublishingLoop(s)
    \/ \E s \in Starters : deliverLettersShutdown(s)
    \/ \E s \in Starters : deliverLettersReceive(s)
    \/ \E s \in Starters : deliverLettersSpawn(s)
    \/ \E l \in Letters : GetChannel(l)
    \/ \E l \in Letters : GetChannelFail(l)
    \/ \E l \in Letters : PublishOk(l)
    \/ \E l \in Letters : TimerFire(l)
    \/ \E l \in Letters : Timeout(l)
    \/ \E c \in Chans, ack \in BOOLEAN : BrokerConfirm(c, ack)
    \/ \E l \in Letters : ConsumeAck(l)
    \/ \E l \in Letters : ConsumeNack(l)
    \/ \E l \in Letters : AttemptRelease(l)
    \/ \E r \in BagToSet(receiptTasks) : EmitReceipt(r)
    \/ ReadReceipt
    \/ \E b \in BOOLEAN : Shutdown(b)
    \/ ShutdownPools
    \/ ShutdownWait

AutoFairness ==
    /\ \A l \in Letters : WF_vars(safeSend(l))
    /\ \A s \in Starters : WF_vars(startAutoPublishingLoop(s))
    /\ \A s \in Starters : WF_vars(deliverLettersShutdown(s))
    /\ \A s \in Starters : WF_vars(deliverLettersSpawn(s))
    /\ \A l \in Letters : WF_vars(GetChannel(l))
    /\ \A l \in Letters : WF_vars(GetChannelFail(l))
    /\ \A l \in Letters : WF_vars(PublishOk(l))
    /\ \A l \in Letters : WF_vars(TimerFire(l))
    /\ \A l \in Letters : WF_vars(ConsumeAck(l) \/ ConsumeNack(l) \/ Timeout(l))
    /\ \A l \in Letters : WF_vars(AttemptRelease(l))
    /\ \A c \in Chans : WF_vars(\E ack \in BOOLEAN : BrokerConfirm(c, ack))
    /\ WF_vars(\E r \in BagToSet(receiptTasks) : EmitReceipt(r))
    /\ WF_vars(ReadReceipt)
    /\ WF_vars(ShutdownPools)
    /\ WF_vars(ShutdownWait)

AutoSpec == Init /\ [][AutoNext]_vars /\ AutoFairness

\* Direct callers of PublishWithConfirmation and of
\* PublishWithConfirmationContext sharing the pool and the broker.
ContextNext ==
    \/ \E l \in Letters : DirectCall(l)
    \/ \E l \in Letters \ viaContext : GetChannel(l)
    \/ \E l \in Letters \ viaContext : GetChannelFail(l)
    \/ \E l \in Letters \ viaContext : PublishOk(l)
    \/ \E l \in Letters \ viaContext : PublishFail(l)
    \/ \E l \in Letters \ viaContext : TimerFire(l)
    \/ \E l \in Letters \ viaContext : Timeout(l)
    \/ \E l \in Letters \ viaContext : ConsumeAck(l)
    \/ \E l \in Letters \ viaContext : ConsumeNack(l)
    \/ \E l \in Letters : PublishWithConfirmationContext(l)
    \/ \E l \in Letters : CancelContext(l)
    \/ \E l \in viaContext : ContextGetChannel(l)
    \/ \E l \in viaContext : ContextGetChannelFail(l)
    \/ \E l \in viaContext : ContextPublishOk(l)
    \/ \E l \in viaContext : ContextPublishFail(l)
    \/ \E l \in viaContext : ContextDone(l)
    \/ \E l \in viaContext : ContextConsumeAck(l)
    \/ \E l \in viaContext : ContextConsumeNack(l)
    \/ \E c \in Chans, ack \in BOOLEAN : BrokerConfirm(c, ack)
    \/ \E c \in Chans : ReplaceChannel(c)
    \/ \E r \in BagToSet(receiptTasks) : EmitReceipt(r)
    \/ ReadReceipt
    \/ \E b \in BOOLEAN : Shutdown(b)
    \/ ShutdownPools
    \/ ShutdownWait

ContextSpec == Init /\ [][ContextNext]_vars

\* Callers of PublishWithTransient and PublishWithConfirmationTransient next
\* to direct callers of PublishWithConfirmation on the managed pool.
TransientNext ==
    \/ \E l \in Letters : PublishWithTransient(l)
    \/ \E l \in Letters : PublishWithTransientAcquire(l)
    \/ \E l \in Letters : PublishWithTransientAcquireFail(l)
    \/ \E l \in Letters, ok \in BOOLEAN : PublishWithTransientSubmit(l, ok)
    \/ \E l \in Letters : PublishWithConfirmationTransient(l)
    \/ \E l \in Letters : TransientGetChannel(l)
    \/ \E l \in Letters : TransientGetChannelFail(l)
    \/ \E l \in Letters : TransientPublishOk(l)
    \/ \E l \in Letters : TransientPublishFail(l)
    \/ \E l \in Letters, ack \in BOOLEAN : TransientBrokerConfirm(l, ack)
    \/ \E l \in Letters : TransientTimerFire(l)
    \/ \E l \in Letters : TransientTimeout(l)
    \/ \E l \in Letters : TransientConsumeAck(l)
    \/ \E l \in Letters : TransientConsumeNack(l)
    \/ \E l \in Letters : DirectCall(l)
    \/ \E l \in Letters : GetChannel(l)
    \/ \E l \in Letters : GetChannelFail(l)
    \/ \E l \in Letters : PublishOk(l)
    \/ \E l \in Letters : PublishFail(l)
    \/ \E l \in Letters : TimerFire(l)
    \/ \E l \in Letters : Timeout(l)
    \/ \E l \in Letters : ConsumeAck(l)
    \/ \E l \in Letters : ConsumeNack(l)
    \/ \E c \in Chans, ack \in BOOLEAN : BrokerConfirm(c, ack)
    \/ \E c \in Chans : ReplaceChannel(c)
    \/ \E r \in BagToSet(receiptTasks) : EmitReceipt(r)
    \/ ReadReceipt
    \/ \E b \in BOOLEAN : Shutdown(b)
    \/ ShutdownPools
    \/ ShutdownWait

TransientSpec == Init /\ [][TransientNext]_vars

\* Callers of Publish and of PublishWithConfirmation running next to the
\* auto-publish drain loops and their spawned attempts, on one pool.
MixedNext ==
    \/ \E l \in Letters, skip \in BOOLEAN : Publish(l, skip)
    \/ \E l \in Letters : PublishAcquire(l)
    \/ \E l \in Letters : PublishAcquireFail(l)
    \/ \E l \in Letters, ok \in BOOLEAN : PublishSubmit(l, ok)
    \/ Next

MixedSpec == Init /\ [][MixedNext]_vars

\* Direct callers of PublishWithConfirmation whose submissions can fail,
\* against a broker that acks every publish it receives, with a pool that
\* replaces discarded channels, and Shutdown.  The calls, the broker, the
\* pool's replacement, the receipt goroutines and Shutdown keep running.
RetryNext ==
    \/ \E l \in Letters : DirectCall(l)
    \/ \E l \in Letters : GetChannel(l)
    \/ \E l \in Letters : GetChannelFail(l)
    \/ \E l \in Letters : PublishOk(l)
    \/ \E l \in Letters : PublishFail(l)
    \/ \E l \in Letters : TimerFire(l)
    \/ \E l \in Letters : Timeout(l)
    \/ \E l \in Letters : ConsumeAck(l)
    \/ \E c \in Chans : BrokerConfirm(c, TRUE)
    \/ \E c \in Chans : ReplaceChannel(c)
    \/ \E r \in BagToSet(receiptTasks) : EmitReceipt(r)
    \/ ReadReceipt
    \/ \E b \in BOOLEAN : Shutdown(b)
    \/ ShutdownPools
    \/ ShutdownWait

RetryFairness ==
    /\ \A l \in Letters : WF_vars(GetChannel(l))
    /\ \A l \in Letters : WF_vars(GetChannelFail(l))
    /\ \A l \in Letters : WF_vars(PublishOk(l) \/ PublishFail(l))
    /\ \A l \in Letters : WF_vars(TimerFire(l))
    /\ \A l \in Letters : WF_vars(ConsumeAck(l) \/ Timeout(l))
    /\ \A c \in Chans : WF_vars(BrokerConfirm(c, TRUE))
    /\ \A c \in Chans : WF_vars(ReplaceChannel(c))
    /\ WF_vars(\E r \in BagToSet(receiptTasks) : EmitReceipt(r))
    /\ WF_vars(ReadReceipt)
    /\ WF_vars(ShutdownPools)
    /\ WF_vars(ShutdownWait)

RetrySpec == Init /\ [][RetryNext]_vars /\ RetryFairness

\* A caller of QueueLetters next to callers of QueueLetter, with
\* auto-publishing against a broker that acks every publish, and Shutdown.
QueueNext ==
    \/ \E ls \in Slices : QueueLetters(ls)
    \/ QueueLettersSend
    \/ QueueLettersReturn
    \/ AckNext

QueueSpec == Init /\ [][QueueNext]_vars

\* Auto-publishing against an acking broker with a caller that calls
\* Shutdown a second time after the first call returned.
TwiceNext ==
    \/ AckNext
    \/ \E b \in BOOLEAN : ShutdownAgain(b)

TwiceSpec == Init /\ [][TwiceNext]_vars

\* ================================================================== claims

Terminated(l) == pc[l] \in {"release", "done"}

\* Receipts of letter l: spawned and not yet sent, and sent.
TasksFor(l) == {r \in BagToSet(receiptTasks) : r.LetterID = LetterIDOf(l)}
EmittedFor(l) == {r \in BagToSet(emitted) : r.LetterID = LetterIDOf(l)}
IsFailureFor(r, l) ==
    /\ r.LetterID = LetterIDOf(l)
    /\ ~r.Success
    /\ r.Error # NoError
    /\ r.FailedLetter = l

\* The step of letter l's call that leaves the confirmation wait without
\* consuming a confirmation: the timeout branch.
TimeoutStep(l) ==
    /\ pc[l] = "wait"
    /\ pc'[l] # "wait"
    /\ Confirmations'[held[l]] = Confirmations[held[l]]

\* C2: when the timeout fires in PublishWithConfirmation, one failure receipt
\* (Success false, Error set, FailedLetter the original letter) is handed to
\* publishReceipt, the held channel goes back to the pool as healthy
\* (erred=false), and the call terminates; a terminated call never submits
\* the letter again.
C2_TimeoutFailsOnceAndStops ==
    [][\A l \in Letters :
        /\ TimeoutStep(l) =>
              /\ \E r \in BagToSet(receiptTasks') :
                    /\ IsFailureFor(r, l)
                    /\ receiptTasks' = receiptTasks (+) SetToBag({r})
              /\ chanState'[held[l]] = "avail"
              /\ inflight'[held[l]] = inflight[held[l]]
              /\ held'[l] = NoChan
              /\ Terminated(l)'
        /\ Terminated(l) =>
              /\ Terminated(l)'
              /\ held'[l] = NoChan
              /\ \A r \in BagToSet(receiptTasks') :
                    r.LetterID = LetterIDOf(l) => BagIn(r, receiptTasks)
      ]_vars

\* C2 witness: a call that timed out has terminated and its failure receipt
\* has been sent.
C2_Witness ==
    \E l \in Letters :
        /\ pc[l] = "done"
        /\ BagIn(NewReceipt(l, TimeoutError), emitted)

\* The step of letter l's call that consumes a confirmation.
ConsumeStep(l) ==
    /\ pc[l] = "wait"
    /\ pc'[l] # "wait"
    /\ Confirmations[held[l]] # <<>>
    /\ Confirmations'[held[l]] = Tail(Confirmations[held[l]])

\* C4: every confirmation a PublishWithConfirmation attempt consumes is the
\* broker's confirmation of the most recent publish issued on that channel,
\* never one sent for an earlier attempt.
C4_ConsumedConfirmationIsLatest ==
    [][\A l \in Letters :
        ConsumeStep(l) => Head(Confirmations[held[l]]).Latest]_vars

\* Number of receipts sent on publishReceipts that carry letter l's LetterID.
EmittedCount(l) == BagCardinality([r \in EmittedFor(l) |-> emitted[r]])
SpawnedCount(l) == BagCardinality([r \in TasksFor(l) |-> receiptTasks[r]])

\* C1 (as stated): under a healthy broker every call of
\* PublishWithConfirmation that acquired a channel and submitted the letter
\* eventually has exactly one receipt emitted, carrying the letter's
\* LetterID: never two, and never none.
C1_ExactlyOneReceiptEventually ==
    /\ [](\A l \in Letters : EmittedCount(l) + SpawnedCount(l) <= 1)
    /\ \A l \in Letters : (pc[l] = "wait") ~> (EmittedCount(l) = 1)

\* C1 (amended): under a healthy broker a call of PublishWithConfirmation
\* never has two receipts, and once it submitted the letter it eventually
\* has exactly one receipt emitted with the letter's LetterID unless it is
\* republishing after nacks forever.
C1_OneReceiptUnlessNackedForever ==
    /\ [](\A l \in Letters : EmittedCount(l) + SpawnedCount(l) <= 1)
    /\ \A l \in Letters :
          (pc[l] = "wait") ~> (EmittedCount(l) = 1 \/ pc[l] = "publish")

\* C1 witness: a call was nacked, then acked, has returned, and its one
\* receipt has been emitted.
C1_Witness ==
    \E l \in nacked :
        /\ pc[l] = "done"
        /\ EmittedCount(l) = 1
        /\ BagIn(NewReceipt(l, NoError), emitted)

\* Letter l's call has been acked: its success receipt exists.
Acked(l) ==
    \/ BagIn(NewReceipt(l, NoError), receiptTasks)
    \/ BagIn(NewReceipt(l, NoError), emitted)

FailureEmitted(l) == \E r \in BagToSet(emitted) : IsFailureFor(r, l)

\* C3 (as stated): a letter submitted by PublishWithConfirmation that is
\* never acked eventually yields a failure receipt (Success false, Error set,
\* FailedLetter the original letter): the call does not retry forever
\* without a receipt.
C3_NackedLetterEventuallyFails ==
    \A l \in Letters : (pc[l] = "wait") ~> (FailureEmitted(l) \/ Acked(l))

HasFailureReceipt(l) ==
    \E r \in BagToSet(receiptTasks) \cup BagToSet(emitted) : IsFailureFor(r, l)

\* C3 (amended): a submitted letter that is never acked either yields a
\* failure receipt (Success false, Error set, FailedLetter the original
\* letter), which happens when an attempt times out, or is republished after
\* a nack; a call that returned without an ack has its failure receipt.
C3_NackedLetterFailsOrRetries ==
    /\ \A l \in Letters :
          (pc[l] = "wait") ~> (FailureEmitted(l) \/ Acked(l) \/ pc[l] = "publish")
    /\ [](\A l \in Letters :
            (Terminated(l) /\ ~Acked(l)) =>
                /\ HasFailureReceipt(l)
                /\ \A r \in TasksFor(l) \cup EmittedFor(l) : IsFailureFor(r, l))

\* C3 witness: a call whose attempts were nacked and never acked has
\* returned after a timeout and its failure receipt has been emitted.
C3_Witness ==
    \E l \in nacked :
        /\ pc[l] = "done"
        /\ ~Acked(l)
        /\ FailureEmitted(l)

\* An attempt spawned by a drain loop that is inside PublishWithConfirmation.
AutoRunning(l) == spawner[l] # NoLoop /\ pc[l] \in {"get", "publish", "wait"}
LoopRunning(s) == loop[s] \in {"select", "sem"}

\* C5: the confirmation-tracked publish attempts spawned by auto-publishing
\* that are still running never number more than MaxCacheChannelCount/2 + 1.
C5_AutoAttemptsCapped ==
    Cardinality({l \in Letters : AutoRunning(l)}) <= (MaxCacheChannelCount \div 2) + 1

\* C6: the pooled channels held at the same time by auto-publish attempts
\* are strictly fewer than the pool's capacity, so one stays obtainable by
\* the direct publish methods.
C6_AutoLeavesAChannel ==
    Cardinality({l \in Letters : spawner[l] # NoLoop /\ held[l] # NoChan})
        < MaxCacheChannelCount

\* No goroutine started by the publisher is alive: no drain loop, no spawned
\* publish attempt, no receipt goroutine.
NoBackgroundWork ==
    /\ \A s \in Starters : ~LoopRunning(s)
    /\ \A l \in Letters : spawner[l] # NoLoop => pc[l] = "done"
    /\ receiptTasks = EmptyBag

\* C7: at the step where Shutdown returns, the drain loop has exited, every
\* publish attempt it spawned has finished and every receipt goroutine has
\* delivered its receipt.
C7_ShutdownJoinsAll ==
    [][(shutPc # "returned" /\ shutPc' = "returned") => NoBackgroundWork']_vars

\* C7 witness: Shutdown has returned after a drain loop ran, spawned an
\* attempt, and that attempt's receipt was delivered.
C7_Witness ==
    /\ shutPc = "returned"
    /\ \E s \in Starters : loop[s] = "exited"
    /\ \E l \in Letters : spawner[l] # NoLoop /\ pc[l] = "done" /\ EmittedCount(l) = 1

\* C8: a QueueLetter call made after Shutdown(true) has returned never
\* enqueues: it is still blocked or has returned false.
C8_QueueLetterFailsAfterShutdown ==
    \A l \in late : pc[l] \in {"calling", "rejected"}

\* QueueLetter returned true for every letter.
AllQueued == \A l \in Letters : pc[l] = "queued" \/ spawner[l] # NoLoop
AllSuccessEmitted ==
    \A l \in Letters : BagIn(NewReceipt(l, NoError), emitted) /\ EmittedCount(l) = 1

\* C9: with auto-publishing started and a broker that acks every publish,
\* N enqueued letters yield exactly N success receipts, one per LetterID
\* (unless Shutdown is raised before they are out), and when Shutdown
\* returns all background work is joined.
C9_AllEnqueuedLettersSucceed ==
    /\ (AllQueued /\ \E s \in Starters : LoopRunning(s))
           ~> (AllSuccessEmitted \/ AwaitShutdown)
    /\ [](~AwaitShutdown =>
            \A l \in Letters :
                /\ EmittedCount(l) + SpawnedCount(l) <= 1
                /\ \A r \in EmittedFor(l) \cup TasksFor(l) : r = NewReceipt(l, NoError))
    /\ [][(shutPc # "returned" /\ shutPc' = "returned") => NoBackgroundWork']_vars

\* C9 witness: every letter was enqueued and has its success receipt, and
\* Shutdown has returned.
C9_Witness ==
    /\ shutPc = "returned"
    /\ \A l \in Letters : spawner[l] # NoLoop
    /\ AllSuccessEmitted

\* C10: at most one auto-publish drain loop runs at any time.
C10_SingleDrainLoop ==
    Cardinality({s \in Starters : LoopRunning(s)}) <= 1

\* The call of letter l has returned to its caller.
Returned(l) == pc[l] \in {"release", "done", "pdone", "edone"}

\* C11: a call of any publish variant whose channel acquisition failed has
\* either returned an error to its caller or handed a failure receipt for
\* the letter to publishReceipt by the time it returns.
C11_AcquireFailureSurfaced ==
    \A l \in acquireFailed :
        Returned(l) => (result[l] \notin {NotReturned, NoError} \/ HasFailureReceipt(l))

\* Number of receipts of letter l, sent or still with their goroutine.
ReceiptCount(l) == EmittedCount(l) + SpawnedCount(l)

\* The step of Publish that submits the letter on the channel it acquired.
PublishSubmitStep(l) == pc[l] = "psubmit" /\ pc'[l] # "psubmit"

\* The submission of that step was accepted by the channel.
Submitted(l) == Len(inflight'[held[l]]) = Len(inflight[held[l]]) + 1

\* C12: Publish(letter, skipReceipt) with a channel in hand submits once and
\* returns (no retry); it hands one receipt to publishReceipt when
\* skipReceipt is false, with Success iff the submission returned no error,
\* and none when skipReceipt is true; the channel goes back to the pool in
\* the same step, discarded (erred=true) iff the submission failed, and the
\* returned call holds no channel and never submits again.
C12_PublishSubmitsOnce ==
    [][\A l \in Letters :
        /\ PublishSubmitStep(l) =>
              /\ pc'[l] = "pdone"
              /\ held'[l] = NoChan
              /\ chanState'[held[l]] = IF Submitted(l) THEN "avail" ELSE "replacing"
              /\ IF skipReceipt[l]
                 THEN receiptTasks' = receiptTasks
                 ELSE \E r \in BagToSet(receiptTasks') :
                        /\ receiptTasks' = receiptTasks (+) SetToBag({r})
                        /\ r.LetterID = LetterIDOf(l)
                        /\ r.Success = Submitted(l)
        /\ pc[l] = "psubmit" => ReceiptCount(l) = 0
        /\ pc[l] = "pdone" =>
              /\ pc'[l] = "pdone"
              /\ held'[l] = NoChan
              /\ ReceiptCount(l)' = ReceiptCount(l)
      ]_vars

\* C12 witness: one Publish with skipReceipt acquired a channel, returned
\* and left no receipt; another without skipReceipt failed its submission
\* and its failure receipt has been emitted.
C12_Witness ==
    /\ \E l \in Letters \ acquireFailed :
          pc[l] = "pdone" /\ skipReceipt[l] /\ ReceiptCount(l) = 0
    /\ \E l \in Letters :
          /\ pc[l] = "pdone" /\ ~skipReceipt[l]
          /\ BagIn(NewReceipt(l, SubmitError), emitted)

\* Receipt r is a well-formed receipt of letter l.
WellFormedFor(r, l) ==
    /\ r.LetterID = LetterIDOf(l)
    /\ r.Success <=> (r.Error = NoError)
    /\ (r.FailedLetter # NoLetter) <=> ~r.Success
    /\ r.FailedLetter # NoLetter => r.FailedLetter = l

\* C13: every receipt handed to publishReceipt carries the LetterID of the
\* letter whose call produced it, and every receipt that exists (with its
\* goroutine, in pub.publishReceipts or already read) has Success true iff
\* Error is absent, and FailedLetter present iff Success is false, in which
\* case it is the original letter.
C13_ReceiptsWellFormed ==
    /\ [](\A r \in BagToSet(receiptTasks) \cup BagToSet(emitted)
                    \cup {publishReceipts[i] : i \in 1..Len(publishReceipts)} :
            \E l \in Letters : WellFormedFor(r, l))
    /\ [][\A r \in BagToSet(receiptTasks') :
            CopiesIn(r, receiptTasks') > CopiesIn(r, receiptTasks) =>
                \E l \in Letters : pc'[l] # pc[l] /\ WellFormedFor(r, l)]_vars

\* C13 witness: a success receipt and a failure receipt have both been
\* emitted.
C13_Witness ==
    /\ \E r \in BagToSet(emitted) : r.Success
    /\ \E r \in BagToSet(emitted) : ~r.Success /\ r.FailedLetter # NoLetter

\* C14: once the shutdown signal is raised, eventually no QueueLetter call
\* is blocked in safeSend and no drain loop is running, wherever the drain
\* loop stood (its select or the wait for a semaphore slot).
C14_ShutdownUnblocks ==
    AwaitShutdown ~>
        /\ \A l \in Letters : pc[l] # "calling"
        /\ \A s \in Starters : ~LoopRunning(s)

\* C15: a QueueLetter call never blocks: whenever a call stands in safeSend
\* it can complete at once, with true or with false.
C15_QueueLetterNeverBlocks ==
    \A l \in Letters : pc[l] = "calling" => ENABLED safeSend(l)

\* What a successful submission does to the call, the channel and the
\* receipts, whichever variant runs it.
SubmitEffect(l) ==
    /\ pc[l] = "publish" /\ pc'[l] = "wait"
    /\ held' = held /\ chanState' = chanState
    /\ inflight' = [inflight EXCEPT ![held[l]] = Append(Age(inflight[held[l]]), TRUE)]
    /\ Confirmations' = [Confirmations EXCEPT ![held[l]] = AgeConf(Confirmations[held[l]])]
    /\ receiptTasks' = receiptTasks /\ wg' = wg

\* What the deadline branch of the race does, e being the variant's error.
DeadlineEffect(l, e) ==
    /\ pc[l] = "wait" /\ pc'[l] = "done"
    /\ receiptTasks' = receiptTasks (+) SetToBag({NewReceipt(l, e)})
    /\ wg' = wg + 1
    /\ chanState' = [chanState EXCEPT ![held[l]] = "avail"]
    /\ inflight' = inflight /\ Confirmations' = Confirmations
    /\ held' = [held EXCEPT ![l] = NoChan]

\* C16: PublishWithConfirmationContext runs the same race as
\* PublishWithConfirmation. Every step of a context call (acquire and flush,
\* acquisition failure, submission error, ack, nack) is a step of
\* PublishWithConfirmation from the same state and the other way round, the
\* same branches are open to both in every state, a submission has the same
\* effect in both, and the cancellation branch does what the timeout branch
\* does: one failure receipt for the letter (the error being the variant's
\* own), the channel returned as healthy, and the call returns.
C16_ContextSameRace ==
    /\ [][\A l \in viaContext :
            /\ ContextGetChannel(l) => GetChannel(l)
            /\ ContextGetChannelFail(l) => GetChannelFail(l)
            /\ ContextPublishFail(l) => PublishFail(l)
            /\ ContextConsumeAck(l) => ConsumeAck(l)
            /\ ContextConsumeNack(l) => ConsumeNack(l)
            /\ ContextPublishOk(l) => SubmitEffect(l)
            /\ ContextDone(l) => DeadlineEffect(l, ContextError)]_vars
    /\ [][\A l \in Letters \ viaContext :
            /\ GetChannel(l) => ContextGetChannel(l)
            /\ GetChannelFail(l) => ContextGetChannelFail(l)
            /\ PublishFail(l) => ContextPublishFail(l)
            /\ ConsumeAck(l) => ContextConsumeAck(l)
            /\ ConsumeNack(l) => ContextConsumeNack(l)
            /\ PublishOk(l) => SubmitEffect(l)
            /\ (Timeout(l) /\ spawner[l] = NoLoop) => DeadlineEffect(l, TimeoutError)]_vars
    /\ [](\A l \in Letters :
            /\ ENABLED ContextGetChannel(l) <=> ENABLED GetChannel(l)
            /\ ENABLED ContextGetChannelFail(l) <=> ENABLED GetChannelFail(l)
            /\ ENABLED ContextPublishOk(l) <=> ENABLED PublishOk(l)
            /\ ENABLED ContextPublishFail(l) <=> ENABLED PublishFail(l)
            /\ ENABLED ContextConsumeAck(l) <=> ENABLED ConsumeAck(l)
            /\ ENABLED ContextConsumeNack(l) <=> ENABLED ConsumeNack(l))

\* C16 witness: a context call was nacked, republished and then cancelled,
\* a timeout call timed out, and both failure receipts have been emitted.
C16_Witness ==
    /\ \E l \in viaContext \cap nacked :
          pc[l] = "done" /\ BagIn(NewReceipt(l, ContextError), emitted)
    /\ \E l \in Letters \ viaContext :
          pc[l] = "done" /\ BagIn(NewReceipt(l, TimeoutError), emitted)

\* Positions of a call that publishes on a transient channel.
TransientPcs == {"tget", "tsubmit", "tdone", "ctget", "ctpublish", "ctwait", "ctdone"}

\* A step taken by, or on the transient channel of, the transient call of l.
TransientStep(l) ==
    /\ pc[l] \in TransientPcs \/ pc'[l] \in TransientPcs
    /\ pc'[l] # pc[l] \/ transient'[l] # transient[l] \/ timeoutAfter'[l] # timeoutAfter[l]

\* C17: a publish on a transient channel never touches the managed pool:
\* no step of PublishWithTransient or PublishWithConfirmationTransient, and
\* no confirmation on a transient channel, changes which managed channels
\* are available, lent or being replaced, nor their confirmation streams;
\* a transient call never holds a pooled channel; and while only transient
\* publishes have run the pool is as it was constructed.
C17_TransientLeavesPoolAlone ==
    /\ [][\A l \in Letters : TransientStep(l) => UNCHANGED <<poolVars, held>>]_vars
    /\ [](\A l \in Letters : pc[l] \in TransientPcs => held[l] = NoChan)
    /\ []((\A l \in Letters : pc[l] \in TransientPcs \cup {"idle"}) =>
            \A c \in Chans : chanState[c] = "avail")

\* C17 witness: every letter was published on a transient channel, one by
\* PublishWithTransient and one by PublishWithConfirmationTransient after a
\* nack, and both calls have returned.
C17_Witness ==
    /\ \E l \in Letters : pc[l] = "tdone" /\ result[l] = SubmitError
    /\ \E l \in nacked : pc[l] = "ctdone" /\ BagIn(NewReceipt(l, NoError), emitted)

\* Managed channels: those the pool has available plus those it has lent.
ManagedCount ==
    Cardinality({c \in Chans : chanState[c] = "avail"})
        + Cardinality({l \in Letters : held[l] # NoChan})

C19_ChannelHeldByOne ==
    /\ [](\A l1, l2 \in Letters :
            (l1 # l2 /\ held[l1] # NoChan) => held[l1] # held[l2])
    /\ [](\A l \in Letters : held[l] # NoChan => chanState[held[l]] = "held")
    /\ [][\A c \in Chans :
            Len(inflight'[c]) > Len(inflight[c]) =>
                \E l \in Letters : held[l] = c /\ pc'[l] # pc[l]]_vars

\* C19 witness: one attempt holds the channel and waits for its
\* confirmation while another attempt, of another kind, waits for a channel.
C19_Witness ==
    \E l1, l2 \in Letters :
        /\ held[l1] # NoChan /\ pc[l1] = "wait" /\ spawner[l1] # NoLoop
        /\ pc[l2] \in {"get", "pget"} /\ spawner[l2] = NoLoop

\* The step of letter l's call that consumes a nack.
NackStep(l) ==
    /\ pc[l] = "wait" /\ pc'[l] = "publish"

\* C20: when PublishWithConfirmation consumes a nack it keeps its channel
\* (nothing is returned to or taken from the pool, no receipt is sent) and
\* goes back to the Publish label, where the same letter is submitted again
\* on that channel with a new timer; the timeout branch is only taken once
\* the timer of the current attempt has fired.
C20_NackRepublishesOnSameChannel ==
    [][\A l \in Letters :
        /\ NackStep(l) =>
              /\ held[l] # NoChan
              /\ held' = held
              /\ chanState' = chanState
              /\ receiptTasks' = receiptTasks
        /\ (pc[l] = "publish" /\ pc'[l] = "wait") =>
              /\ held'[l] = held[l]
              /\ Len(inflight'[held[l]]) = Len(inflight[held[l]]) + 1
              /\ timeoutAfter'[l] = "running"
        /\ TimeoutStep(l) => timeoutAfter[l] = "fired"
      ]_vars

\* C20 witness: a call that consumed a nack has submitted the letter again,
\* holds its channel and waits with a running timer.
C20_Witness ==
    \E l \in nacked :
        /\ pc[l] = "wait" /\ held[l] # NoChan
        /\ timeoutAfter[l] = "running"
        /\ inflight[held[l]] # <<>>

\* The call of PublishWithConfirmation for letter l is inside its retry loop.
Retrying(l) == pc[l] \in {"get", "publish", "wait"}

\* C21: a call of PublishWithConfirmation whose submission fails returns the
\* channel as erred and starts over with a newly acquired channel, and this
\* retry ends: once Shutdown has raised the shutdown signal, a call that is
\* inside the retry loop eventually leaves it.
C21_RetryStopsAfterShutdown ==
    \A l \in Letters : (AwaitShutdown /\ Retrying(l)) ~> ~Retrying(l)

\* The step of letter l's call in which a submission fails, and the step in
\* which its channel acquisition fails.
SubmitFailStep(l) == pc[l] = "publish" /\ pc'[l] = "get"
AcquireFailStep(l) == pc[l] = "get" /\ Terminated(l)' /\ poolShutdown

\* The step hands a failure receipt of letter l to publishReceipt.
FailureSpawned(l) ==
    \E r \in BagToSet(receiptTasks') :
        /\ IsFailureFor(r, l)
        /\ CopiesIn(r, receiptTasks') > CopiesIn(r, receiptTasks)

\* C22: PublishWithConfirmation does not surface a nack or a submission
\* error: the step that consumes a nack and the step in which a submission
\* fails produce no receipt and do not end the call; a failure receipt is
\* only produced by the timeout branch (after the timer fired) or by a failed
\* channel acquisition; and a call that consumes an ack, after any number of
\* nacks, ends with exactly one receipt, a success, and never gets another.
C22_NacksNeverSurfaced ==
    /\ [][\A l \in Letters :
            /\ (NackStep(l) \/ SubmitFailStep(l)) =>
                  /\ receiptTasks' = receiptTasks
                  /\ emitted' = emitted
                  /\ ~Terminated(l)'
            /\ FailureSpawned(l) =>
                  \/ TimeoutStep(l) /\ timeoutAfter[l] = "fired"
                  \/ AcquireFailStep(l)
            /\ (ConsumeStep(l) /\ Head(Confirmations[held[l]]).Ack) =>
                  /\ Terminated(l)'
                  /\ ReceiptCount(l)' = 1
                  /\ Acked(l)'
       ]_vars
    /\ [](\A l \in Letters :
            (Terminated(l) /\ Acked(l)) =>
                (ReceiptCount(l) = 1 /\ ~HasFailureReceipt(l)))

\* C22 witness: a call that consumed a nack was acked afterwards and has
\* returned with its single success receipt, while a channel discarded after
\* a failed submission waits for its replacement.
C22_Witness ==
    \E l \in nacked :
        /\ Terminated(l)
        /\ Acked(l)
        /\ ReceiptCount(l) = 1
        /\ ~HasFailureReceipt(l)
        /\ \E c \in Chans : chanState[c] = "replacing"

\* C23: every pooled channel a publish operation acquired goes back to the
\* pool exactly once: a channel leaves the lent state only in a step of the
\* call that holds it, and that call holds nothing afterwards; a call that
\* returned holds no channel; and ReturnChannel is never called with a
\* channel the call did not acquire.
C23_ChannelReturnedExactlyOnce ==
    /\ [][\A c \in Chans :
            (chanState[c] = "held" /\ chanState'[c] # "held") =>
                \E l \in Letters :
                    /\ held[l] = c
                    /\ held'[l] = NoChan
                    /\ pc'[l] # pc[l]]_vars
    /\ [](\A l \in Letters : Returned(l) => held[l] = NoChan)
    /\ [](unacquiredReturn = {})

\* Positions at which a transient call has a transient channel in use.
TransientInUse == {"tsubmit", "ctpublish", "ctwait"}

\* C24: a transient channel is open only while its call is submitting on it
\* or waiting for its confirmation: a call opens a channel only when it has
\* none open (after a failed submission the failed channel is closed before
\* the next is opened), and a call that is acked, times out or returns has
\* closed its channel, so no transient channel is open after the call ended.
C24_TransientChannelsClosed ==
    /\ [](\A l \in Letters : transient[l].open => pc[l] \in TransientInUse)
    /\ [][\A l \in Letters :
            (pc[l] \in {"tget", "ctget"} /\ transient'[l].open) =>
                ~transient[l].open]_vars

\* C24 witness: a confirmed transient publish was nacked, republished, had
\* its submission fail and is about to open its next channel with the failed
\* one closed, and a PublishWithTransient call has returned with its channel
\* closed.
C24_Witness ==
    /\ \E l \in nacked : pc[l] = "ctget" /\ ~transient[l].open
    /\ \E l \in Letters : pc[l] = "tdone" /\ ~transient[l].open

\* C25: with a drain loop started, every letter that QueueLetter accepted
\* (the call returned true) eventually has a receipt emitted on
\* publishReceipts, also when it is still in pub.letters at the time
\* Shutdown is called.
C25_QueuedLetterGetsReceipt ==
    \A l \in Letters :
        (pc[l] = "queued" /\ \E s \in Starters : LoopRunning(s))
            ~> (EmittedCount(l) >= 1)

\* Letter l has been put on pub.letters (it is there or was dequeued since).
Enqueued(l) == pc[l] \notin {"idle", "batched", "calling", "rejected"}

\* C26: QueueLetters sends the letters of its slice one at a time in slice
\* order, each at the tail of pub.letters, and stops at the first send that
\* fails: it returns true iff every letter of the slice was enqueued; when
\* it returns false the queue is left as it is (the letters before the
\* failing one stay enqueued), the failing letter is rejected and no later
\* letter of the slice is ever sent.
C26_QueueLettersStopsAtFirstFailure ==
    /\ [][/\ batchNext' # batchNext =>
                /\ batchNext <= Len(batch)
                /\ batchNext' = batchNext + 1
                /\ pc[batch[batchNext]] = "batched"
                /\ letters' = Append(letters, batch[batchNext])
          /\ (batchPc = "loop" /\ batchPc' = "returned" /\ ~batchOk') =>
                /\ letters' = letters
                /\ batchNext' = batchNext
                /\ batchNext <= Len(batch)
       ]_vars
    /\ [](batchPc = "returned" =>
            (batchOk <=> \A i \in DOMAIN batch : Enqueued(batch[i])))
    /\ [](batchPc # "idle" =>
            \A i \in DOMAIN batch :
                /\ i < batchNext => Enqueued(batch[i])
                /\ i > batchNext => pc[batch[i]] = "batched"
                /\ (i = batchNext /\ batchPc = "returned") => pc[batch[i]] = "rejected")

\* C26 witness: QueueLetters was given two letters, enqueued the first,
\* failed on the second and returned false, and the first is still in
\* pub.letters.
C26_Witness ==
    /\ batchPc = "returned" /\ ~batchOk
    /\ Len(batch) = 2 /\ batchNext = 2
    /\ letters = <<batch[1]>>
    /\ pc[batch[2]] = "rejected"

\* C27: Shutdown is idempotent: a second call of Shutdown made after the
\* first returned returns normally as well (it does not panic) and leaves
\* the publisher shut down as the first call left it.
C27_ShutdownIdempotent ==
    /\ [](shutPc # "panicked")
    /\ [][shutPc = "returned" => UNCHANGED <<shutdownSignal, poolShutdown>>]_vars

\* C28: once the shutdown signal is raised no drain loop takes another
\* letter from pub.letters and none spawns another publish attempt, whether
\* the loop was running when Shutdown was called or was started by a
\* StartAutoPublishing call made afterwards.
C28_NoDequeueAfterShutdown ==
    [][AwaitShutdown =>
        /\ letters' = letters \/ Len(letters') > Len(letters)
        /\ \A s \in Starters :
              /\ ~(loop[s] = "select" /\ loop'[s] = "sem")
              /\ ~(loop[s] = "sem" /\ loop'[s] = "select")]_vars
====
